---- MODULE Spec2Model ----
(***************************************************************************)
(* Model of the graph compiler of the Transunformers web explorer:         *)
(*   tree.ts          normalizeTree, collapseRepeatingChildren,            *)
(*                    buildCollapsedNode, splitCollapsedNode               *)
(*   graph-builder.ts resolveFlowMode, shouldExpandNode, buildGraph        *)
(*   elk-layout.ts    buildParentIndex, isAncestor, layoutGraph            *)
(*   ModelWorkspace   the layout effect (active flag, layouting flag),     *)
(*                    onNodeDoubleClick                                    *)
(*   store.ts         toggleExpanded                                       *)
(*   client.ts        ModelDataClient: getChunk, getGroup, releaseModel,   *)
(*                    clearCache                                           *)
(*                                                                         *)
(* Optional values (null / undefined in the source) are sequences of       *)
(* length at most one: None is <<>>, Some(v) is <<v>>.  Strings are real   *)
(* strings, built and parsed character by character as the source does.    *)
(***************************************************************************)
EXTENDS Integers, Sequences, FiniteSets, TLC

VARIABLES
    pc,           \* position of the driver of the pure pipeline
    raw,          \* the RawNode handed to normalizeTree
    collapseOpt,  \* options.collapseRepeats of the last normalizeTree call
    tree,         \* result of normalizeTree(raw, {collapseRepeats})
    tree2,        \* result of normalizeTree on the re-encoded tree
    splitNode,    \* argument of the last splitCollapsedNode call
    splitSize,    \* its segmentSize
    splitOut,     \* its result
    options,      \* the GraphBuildOptions of the last buildGraph call
    graph,        \* result of buildGraph(tree, options)
    elkInput,     \* the graph layoutGraph hands to elk.layout
    version,      \* which of the two ModelWorkspace versions runs
    graphProp,    \* the `graph` the layout effect depends on: None or Some(g)
    built,        \* how many graphs have been built so far
    dirty,        \* the layout effect is due to run for the current graph
    runs,         \* the layoutGraph calls of the effect, oldest first
    cleanup,      \* the run whose cleanup function React holds, if any
    timers,       \* the setTimeout(..., 0) callbacks not yet fired, in order
    layoutedNodes,  \* None for [], Some(g) for the laid-out nodes of graph g
    layoutedEdges,  \* None for [], Some(g) for the edges of graph g
    layouting,    \* the layouting flag
    applied,      \* history of the writes of a result to the layout state
    placement,    \* the coordinates elk.layout answers with
    calls,        \* the layoutGraph calls made on the built graph
    indexCache,   \* ModelDataClient: the index is loaded (indexCache, indexById)
    manifestCache,  \* the manifest of the model is in manifestCache
    chunkCache,   \* chunkCache.get(modelPath): None or Some(a Map of chunkMaps)
    chunkMaps,    \* the Map objects made for chunkCache: the chunk keys each holds
    chunkCalls,   \* the getChunk calls
    groupCalls    \* the getGroup calls

treeVars == <<pc, raw, collapseOpt, tree, tree2, splitNode, splitSize, splitOut>>

buildVars == <<options, graph, elkInput>>

wsVars == <<version, graphProp, built, dirty, runs, cleanup, timers, layoutedNodes,
            layoutedEdges, layouting, applied>>

layoutVars == <<placement, calls>>

clientVars == <<indexCache, manifestCache, chunkCache, chunkMaps, chunkCalls, groupCalls>>

vars == <<treeVars, buildVars, wsVars, layoutVars, clientVars>>

-----------------------------------------------------------------------------
(* Optional values and the ?? operator *)

None == <<>>

Some(v) == <<v>>

Coalesce(a, b) == IF a # None THEN a ELSE b

Coalesce4(a, b, c, d) == Coalesce(a, Coalesce(b, Coalesce(c, d)))

-----------------------------------------------------------------------------
(* Bounds of the model *)

MaxKids == 3

MaxSplit == 3

MaxBranchKids == 3

MaxStackKids == 4

MaxAutoDepth == 2

MaxBuildSplit == 2

MaxGraphs == 3

MaxStageKids == 2

MaxChunkCalls == 3

MaxGroupCalls == 1

MaxExpandedKeys == 2

-----------------------------------------------------------------------------
(* Strings *)

Digits == {"0", "1", "2", "3", "4", "5", "6", "7", "8", "9"}

CharAt(s, i) == SubSeq(s, i, i)

DigitVal(c) ==
    CASE c = "0" -> 0 [] c = "1" -> 1 [] c = "2" -> 2 [] c = "3" -> 3
      [] c = "4" -> 4 [] c = "5" -> 5 [] c = "6" -> 6 [] c = "7" -> 7
      [] c = "8" -> 8 [] c = "9" -> 9

\* /^\d+$/
IsDigits(s) == Len(s) > 0 /\ \A i \in 1..Len(s) : CharAt(s, i) \in Digits

RECURSIVE ToNumber(_)
\* Number(s) of a string of decimal digits
ToNumber(s) ==
    IF Len(s) = 0 THEN 0
    ELSE 10 * ToNumber(SubSeq(s, 1, Len(s) - 1)) + DigitVal(CharAt(s, Len(s)))

\* text.includes(word)
Includes(text, word) ==
    \E i \in 1..(Len(text) - Len(word) + 1) :
        SubSeq(text, i, i + Len(word) - 1) = word

RECURSIVE Join(_, _)
\* Array.prototype.join
Join(strs, sep) ==
    IF Len(strs) = 0 THEN ""
    ELSE IF Len(strs) = 1 THEN strs[1]
    ELSE strs[1] \o sep \o Join(Tail(strs), sep)

-----------------------------------------------------------------------------
(* tree.ts *)

\* name.match(/^(\d+)\.\.(\d+)$/)
parseRangeFromName(name) ==
    LET cuts == {k \in 1..(Len(name) - 3) :
                    /\ IsDigits(SubSeq(name, 1, k))
                    /\ SubSeq(name, k + 1, k + 2) = ".."
                    /\ IsDigits(SubSeq(name, k + 3, Len(name)))}
    IN IF cuts = {} THEN None
       ELSE LET k == CHOOSE c \in cuts : TRUE
            IN Some([start |-> ToNumber(SubSeq(name, 1, k)),
                     end |-> ToNumber(SubSeq(name, k + 3, Len(name)))])

parseIndexFromName(name) ==
    IF ~IsDigits(name) THEN None ELSE Some(ToNumber(name))

\* the start or the end of the range parsed from the name
RangeField(range, field) == IF range = None THEN None ELSE Some(range[1][field])

\* the tail of resolveIndexRange: start and end known or null
RangeBetween(start, end) ==
    IF start = None \/ end = None THEN None
    ELSE Some([start |-> start[1], end |-> end[1]])

\* resolveIndexRange once rangeFromName and parseIndexFromName(node.name) are
\* evaluated
resolveIndexRangeFrom(node, rangeFromName, indexFromName) ==
    RangeBetween(Coalesce4(node.indexStart, RangeField(rangeFromName, "start"),
                           node.index, indexFromName),
                 Coalesce4(node.indexEnd, RangeField(rangeFromName, "end"),
                           node.index, indexFromName))

resolveIndexRange(node) ==
    resolveIndexRangeFrom(node, parseRangeFromName(node.name),
                          parseIndexFromName(node.name))

\* range.end - range.start + 1, or 1 without a range
RangeLength(range) ==
    IF range # None THEN range[1].end - range[1].start + 1 ELSE 1

resolveRepeatCount(node) ==
    IF node.repeat # None THEN node.repeat[1]
    ELSE RangeLength(resolveIndexRange(node))

\* Math.round(total / repeat) for total >= 0, repeat > 0
RoundDiv(total, repeat) == (2 * total + repeat) \div (2 * repeat)

\* parameters?.total?.count ?? 0
TotalParamCount(node) ==
    IF node.parameters # None /\ node.parameters[1].total # None
    THEN node.parameters[1].total[1].count ELSE 0

\* the tail of resolveUnitParamCount
UnitCount(total, repeat) == IF repeat <= 0 THEN total ELSE RoundDiv(total, repeat)

resolveUnitParamCount(node) ==
    UnitCount(TotalParamCount(node), resolveRepeatCount(node))

\* the childKey of resolveSignature
ChildKey(node) ==
    IF Len(node.children) > 0
    THEN Join([i \in 1..Len(node.children) |->
                 Coalesce(node.children[i].className,
                          Some(node.children[i].name))[1]
                 \o ":" \o node.children[i].kind], ",")
    ELSE ""

\* the object resolveSignature returns, from its keys
SignatureOf(node, shallowKey, childKey, range) ==
    [shallow |-> shallowKey,
     deep |-> IF childKey # "" THEN Some(shallowKey \o "|" \o childKey) ELSE None,
     hasChildren |-> Len(node.children) > 0,
     hasIndex |-> range # None]

resolveSignature(node) ==
    SignatureOf(node,
                Coalesce(node.className, Some(node.name))[1] \o "|"
                    \o Join(node.tags, "|") \o "|"
                    \o ToString(resolveUnitParamCount(node)),
                ChildKey(node),
                resolveIndexRange(node))

ZeroStat == [count |-> 0, size_bytes |-> 0, trainable |-> 0]

\* AddStat with the trainable sum fed from the count field
AddStatCountAsTrainable(a, b) ==
    [count |-> a.count + b.count,
     size_bytes |-> a.size_bytes + b.size_bytes,
     trainable |-> a.trainable + b.count]

AddStat(a, b) ==
    [count |-> a.count + b.count,
     size_bytes |-> a.size_bytes + b.size_bytes,
     trainable |-> a.trainable + b.trainable]

\* one turn of the loop of sumStats on the stats of a node
sumStatsStep(acc, stats) ==
    [hasSelf |-> acc.hasSelf \/ (stats # None /\ stats[1].self # None),
     hasTotal |-> acc.hasTotal \/ (stats # None /\ stats[1].total # None),
     self |-> IF stats # None /\ stats[1].self # None
              THEN AddStat(acc.self, stats[1].self[1]) ELSE acc.self,
     total |-> IF stats # None /\ stats[1].total # None
               THEN AddStat(acc.total, stats[1].total[1]) ELSE acc.total]

RECURSIVE sumStatsLoop(_, _, _, _)
\* the for loop of sumStats: acc holds hasSelf, hasTotal and the six sums
sumStatsLoop(nodes, key, i, acc) ==
    IF i > Len(nodes) THEN acc
    ELSE sumStatsLoop(nodes, key, i + 1, sumStatsStep(acc, nodes[i][key]))

\* the return statements of sumStats
sumStatsResult(acc) ==
    IF ~acc.hasSelf /\ ~acc.hasTotal THEN None
    ELSE Some([self |-> IF acc.hasSelf THEN Some(acc.self) ELSE None,
               total |-> IF acc.hasTotal THEN Some(acc.total) ELSE None])

sumStats(nodes, key) ==
    sumStatsResult(sumStatsLoop(nodes, key, 1,
                                [hasSelf |-> FALSE, hasTotal |-> FALSE,
                                 self |-> ZeroStat, total |-> ZeroStat]))

RECURSIVE contiguousLoop(_, _, _)
\* the contiguity loop of buildCollapsedNode: None when a range does not
\* start where the previous one ended, else the final value of `expected`
contiguousLoop(ranges, i, expected) ==
    IF i > Len(ranges) THEN Some(expected)
    ELSE IF ranges[i] = None THEN None
    ELSE IF ranges[i][1].start # expected THEN None
    ELSE contiguousLoop(ranges, i + 1, ranges[i][1].end + 1)

RECURSIVE sumRepeatCountingMembers(_, _)
\* sumRepeat that counts one per member instead of the member's repeat
sumRepeatCountingMembers(group, i) ==
    IF i > Len(group) THEN 0
    ELSE 1 + sumRepeatCountingMembers(group, i + 1)

RECURSIVE sumRepeat(_, _)
\* group.reduce((sum, node) => sum + resolveRepeatCount(node), 0)
sumRepeat(group, i) ==
    IF i > Len(group) THEN 0
    ELSE resolveRepeatCount(group[i]) + sumRepeat(group, i + 1)

\* indexStart and indexEnd of a contiguous group, from the final `expected`
SpanUpTo(start, expected) ==
    IF expected = None THEN None
    ELSE Some([indexStart |-> start, indexEnd |-> expected[1] - 1])

\* hasAllRanges and the contiguity loop of buildCollapsedNode: the span of
\* the group when it is contiguous, else None
contiguousSpan(ranges) ==
    IF \E i \in 1..Len(ranges) : ranges[i] = None THEN None
    ELSE SpanUpTo(ranges[1][1].start, contiguousLoop(ranges, 1, ranges[1][1].start))

\* the name of the collapsed node
collapsedName(first, span) ==
    IF span # None
    THEN ToString(span[1].indexStart) \o ".." \o ToString(span[1].indexEnd)
    ELSE first.name

\* the path of the collapsed node
collapsedPath(first, span, parentPath) ==
    parentPath \o "::stack:"
        \o (IF span # None
            THEN "[" \o ToString(span[1].indexStart) \o "-"
                     \o ToString(span[1].indexEnd) \o "]"
            ELSE first.name)

\* the object buildCollapsedNode returns
collapsedNode(first, group, span, path) ==
    [id |-> path,
     name |-> collapsedName(first, span),
     path |-> path,
     className |-> first.className,
     kind |-> "collapsed",
     depth |-> first.depth,
     index |-> None,
     indexStart |-> IF span # None THEN Some(span[1].indexStart) ELSE None,
     indexEnd |-> IF span # None THEN Some(span[1].indexEnd) ELSE None,
     repeat |-> Some(sumRepeat(group, 1)),
     parameters |-> sumStats(group, "parameters"),
     buffers |-> sumStats(group, "buffers"),
     parameterDetails |-> <<>>,
     bufferDetails |-> <<>>,
     tags |-> first.tags,
     children |-> <<>>,
     synthetic |-> TRUE]

\* buildCollapsedNode once the span of the group is known
buildCollapsedNodeOver(group, parentPath, span) ==
    collapsedNode(group[1], group, span, collapsedPath(group[1], span, parentPath))

buildCollapsedNode(group, parentPath) ==
    buildCollapsedNodeOver(group, parentPath,
        contiguousSpan([i \in 1..Len(group) |-> resolveIndexRange(group[i])]))

\* flush() of collapseRepeatingChildren: what it pushes onto `collapsed`
flush(group, parentPath) ==
    IF Len(group) <= 1 THEN group
    ELSE <<buildCollapsedNode(group, parentPath)>>

\* the condition under which the loop of collapseRepeatingChildren starts a
\* new group
startsNewGroup(group, groupSignature, signature) ==
    \/ Len(group) = 0
    \/ groupSignature = None
    \/ groupSignature[1].shallow # signature.shallow
    \/ (~groupSignature[1].hasIndex \/ ~signature.hasIndex)
    \/ (/\ groupSignature[1].hasChildren
        /\ signature.hasChildren
        /\ groupSignature[1].deep # signature.deep)

\* `groups` after a flush() of the current group
Flushed(groups, group) == IF Len(group) = 0 THEN groups ELSE Append(groups, group)

RECURSIVE collapseGroupsLoop(_, _, _, _, _)
RECURSIVE collapseGroupsStep(_, _, _, _, _, _)

\* one turn of the loop on children[i], whose signature is known
collapseGroupsStep(children, i, groups, group, groupSignature, signature) ==
    IF startsNewGroup(group, groupSignature, signature)
    THEN collapseGroupsLoop(children, i + 1, Flushed(groups, group),
                            <<children[i]>>, Some(signature))
    ELSE collapseGroupsLoop(children, i + 1, groups,
                            Append(group, children[i]), groupSignature)

\* the for loop of collapseRepeatingChildren: the groups it forms, in the
\* order in which flush() is called on them (empty groups left out)
collapseGroupsLoop(children, i, groups, group, groupSignature) ==
    IF i > Len(children) THEN Flushed(groups, group)
    ELSE collapseGroupsStep(children, i, groups, group, groupSignature,
                            resolveSignature(children[i]))

collapseGroups(children) == collapseGroupsLoop(children, 1, <<>>, <<>>, None)

RECURSIVE flushAll(_, _)
\* `collapsed` after flush() has run on every group
flushAll(groups, parentPath) ==
    IF Len(groups) = 0 THEN <<>>
    ELSE flush(groups[1], parentPath) \o flushAll(Tail(groups), parentPath)

collapseRepeatingChildren(children, parentPath) ==
    IF Len(children) < 2 THEN children
    ELSE flushAll(collapseGroups(children), parentPath)

\* the object normalizeTree returns, from its normalized children
normalizedNode(node, depth, normalizedChildren) ==
    [id |-> node.path,
     name |-> node.name,
     path |-> node.path,
     className |-> node.class,
     kind |-> IF node.kind # None THEN node.kind[1]
              ELSE IF Len(normalizedChildren) > 0 THEN "container" ELSE "leaf",
     depth |-> depth,
     index |-> node.index,
     indexStart |-> node.index_start,
     indexEnd |-> node.index_end,
     repeat |-> node.repeat,
     parameters |-> node.parameters,
     buffers |-> node.buffers,
     parameterDetails |-> node.parameter_details,
     bufferDetails |-> node.buffer_details,
     tags |-> node.tags,
     children |-> normalizedChildren,
     synthetic |-> FALSE]

\* options.collapseRepeats ? collapseRepeatingChildren(...) : children
maybeCollapsed(children, collapseRepeats, parentPath) ==
    IF collapseRepeats THEN collapseRepeatingChildren(children, parentPath)
    ELSE children

RECURSIVE normalizeTreeAlwaysCollapsing(_, _, _)
\* normalizeTree that collapses whatever options.collapseRepeats says
normalizeTreeAlwaysCollapsing(node, collapseRepeats, depth) ==
    normalizedNode(node, depth,
        maybeCollapsed([i \in 1..Len(node.children) |->
                           normalizeTreeAlwaysCollapsing(node.children[i],
                                                         collapseRepeats, depth + 1)],
                       TRUE, node.path))

RECURSIVE normalizeTree(_, _, _)
normalizeTree(node, collapseRepeats, depth) ==
    normalizedNode(node, depth,
        maybeCollapsed([i \in 1..Len(node.children) |->
                           normalizeTree(node.children[i], collapseRepeats, depth + 1)],
                       collapseRepeats, node.path))

Min(a, b) == IF a < b THEN a ELSE b

\* the leaves branch of splitCollapsedNode (Array.from({length: rangeLength}))
splitLeaves(node, start, rangeLength) ==
    [i \in 1..(IF rangeLength > 0 THEN rangeLength ELSE 0) |->
        LET value == start + i - 1
            rangePath == node.path \o "::" \o ToString(value)
        IN [node EXCEPT !.id = rangePath,
                        !.name = ToString(value),
                        !.path = rangePath,
                        !.kind = "leaf",
                        !.index = Some(value),
                        !.indexStart = Some(value),
                        !.indexEnd = Some(value),
                        !.repeat = Some(1),
                        !.children = <<>>,
                        !.synthetic = TRUE]]

RECURSIVE splitSegmentsUnclamped(_, _, _, _)
\* splitSegments without the Math.min(end, ...) clamp of the last segment
splitSegmentsUnclamped(node, current, end, segmentSize) ==
    IF current > end THEN <<>>
    ELSE LET segmentEnd == current + segmentSize - 1
             rangePath == node.path \o "::" \o ToString(current) \o "-"
                                    \o ToString(segmentEnd)
             segment == [node EXCEPT
                            !.id = rangePath,
                            !.name = ToString(current) \o ".." \o ToString(segmentEnd),
                            !.path = rangePath,
                            !.kind = "collapsed",
                            !.indexStart = Some(current),
                            !.indexEnd = Some(segmentEnd),
                            !.repeat = Some(segmentEnd - current + 1),
                            !.children = <<>>,
                            !.synthetic = TRUE]
         IN <<segment>> \o splitSegmentsUnclamped(node, current + segmentSize, end,
                                                  segmentSize)

RECURSIVE splitSegments(_, _, _, _)
\* the for loop of splitCollapsedNode
splitSegments(node, current, end, segmentSize) ==
    IF current > end THEN <<>>
    ELSE LET segmentEnd == Min(end, current + segmentSize - 1)
             rangePath == node.path \o "::" \o ToString(current) \o "-"
                                    \o ToString(segmentEnd)
             segment == [node EXCEPT
                            !.id = rangePath,
                            !.name = ToString(current) \o ".." \o ToString(segmentEnd),
                            !.path = rangePath,
                            !.kind = "collapsed",
                            !.indexStart = Some(current),
                            !.indexEnd = Some(segmentEnd),
                            !.repeat = Some(segmentEnd - current + 1),
                            !.children = <<>>,
                            !.synthetic = TRUE]
         IN <<segment>> \o splitSegments(node, current + segmentSize, end, segmentSize)

\* the tail of splitCollapsedNode: start and end known or null
splitBetween(node, segmentSize, start, end) ==
    IF start = None \/ end = None THEN <<>>
    ELSE IF end[1] - start[1] + 1 <= segmentSize
         THEN splitLeaves(node, start[1], end[1] - start[1] + 1)
         ELSE splitSegments(node, start[1], end[1], segmentSize)

\* splitCollapsedNode once parseRangeFromName(node.name) is evaluated; a
\* repeat of 0 is falsy
splitCollapsedNodeFrom(node, segmentSize, fromName) ==
    splitBetween(node, segmentSize,
        Coalesce(node.indexStart,
          Coalesce(RangeField(fromName, "start"),
                   IF node.repeat # None /\ node.repeat[1] # 0 THEN Some(0) ELSE None)),
        Coalesce(node.indexEnd,
          Coalesce(RangeField(fromName, "end"),
                   IF node.repeat # None /\ node.repeat[1] # 0
                   THEN Some(node.repeat[1] - 1) ELSE None)))

splitCollapsedNode(node, segmentSize) ==
    splitCollapsedNodeFrom(node, segmentSize, parseRangeFromName(node.name))

-----------------------------------------------------------------------------
(* graph-builder.ts *)

UpperCase == "ABCDEFGHIJKLMNOPQRSTUVWXYZ"

LowerCase == "abcdefghijklmnopqrstuvwxyz"

LowerOf ==
    [c \in {CharAt(UpperCase, i) : i \in 1..Len(UpperCase)} |->
        CharAt(LowerCase, CHOOSE i \in 1..Len(UpperCase) : CharAt(UpperCase, i) = c)]

ToLowerChar(c) == IF c \in DOMAIN LowerOf THEN LowerOf[c] ELSE c

RECURSIVE ToLowerBetween(_, _, _)
\* the lower-cased characters lo..hi of s
ToLowerBetween(s, lo, hi) ==
    IF lo > hi THEN ""
    ELSE IF lo = hi THEN ToLowerChar(CharAt(s, lo))
    ELSE ToLowerBetween(s, lo, (lo + hi) \div 2)
         \o ToLowerBetween(s, (lo + hi) \div 2 + 1, hi)

\* String.prototype.toLowerCase
ToLower(s) == ToLowerBetween(s, 1, Len(s))

IncludesAny(text, words) == \E w \in words : Includes(text, w)

resolveNodeText(node) ==
    ToLower(node.name \o " " \o Coalesce(node.className, Some(""))[1] \o " "
            \o node.path \o " " \o Join(node.tags, " "))

LowerTags(node) == {ToLower(node.tags[i]) : i \in 1..Len(node.tags)}

Max(a, b) == IF a > b THEN a ELSE b

getNodeSize(node) ==
    LET baseWidth == Max(220, Min(380, 170 + Len(node.name) * 7))
    IN IF node.kind = "collapsed" THEN [width |-> baseWidth, height |-> 66]
       ELSE IF Len(node.children) > 0
            THEN [width |-> Max(baseWidth, 300), height |-> 100]
            ELSE [width |-> baseWidth, height |-> 62]

\* options.expanded[id]: None when the map has no such key
ExpandedAt(opts, id) ==
    IF id \in DOMAIN opts.expanded THEN Some(opts.expanded[id]) ELSE None

\* shouldExpandNode without the test for kind 'collapsed'
shouldExpandNodeIgnoringKind(node, opts) ==
    IF ExpandedAt(opts, node.id) = Some(TRUE) THEN TRUE
    ELSE IF ExpandedAt(opts, node.id) = Some(FALSE) THEN FALSE
    ELSE node.depth < opts.autoDepth

shouldExpandNode(node, opts) ==
    IF ExpandedAt(opts, node.id) = Some(TRUE) THEN TRUE
    ELSE IF ExpandedAt(opts, node.id) = Some(FALSE) THEN FALSE
    ELSE IF node.kind = "collapsed" THEN FALSE
    ELSE node.depth < opts.autoDepth

resolveOrderIndex(node) ==
    IF node.index # None THEN node.index
    ELSE IF node.indexStart # None THEN node.indexStart
    ELSE None

\* /layer(?!norm)/.test(text)
LayerNotNorm(text) ==
    \E i \in 1..(Len(text) - 4) :
        /\ SubSeq(text, i, i + 4) = "layer"
        /\ ~(i + 8 <= Len(text) /\ SubSeq(text, i + 5, i + 8) = "norm")

\* resolveExplicitStage on the lower-cased text and the tags of the node
explicitStageOf(text, tags) ==
    IF \/ "head" \in tags
       \/ IncludesAny(text, {"lm_head", "classifier", "logits", "proj_out",
                             "projection", "pooler", "prediction", "output"})
    THEN Some("head")
    ELSE IF \/ "embedding" \in tags
            \/ IncludesAny(text, {"embedding", "embed", "token", "patch", "position"})
    THEN Some("input")
    ELSE IF "decoder" \in tags \/ Includes(text, "decoder") THEN Some("decoder")
    ELSE IF "encoder" \in tags \/ Includes(text, "encoder") THEN Some("encoder")
    ELSE IF "norm" \in tags \/ Includes(text, "norm") THEN Some("norm")
    ELSE IF \/ "attention" \in tags
            \/ "mlp" \in tags
            \/ IncludesAny(text, {"attn", "transformer", "block"})
            \/ LayerNotNorm(text)
    THEN Some("block")
    ELSE None

resolveExplicitStage(node) ==
    explicitStageOf(resolveNodeText(node), {node.tags[i] : i \in 1..Len(node.tags)})

resolveParamCount(node) ==
    IF node.parameters # None /\ node.parameters[1].total # None
    THEN node.parameters[1].total[1].count
    ELSE IF node.parameters # None /\ node.parameters[1].self # None
    THEN node.parameters[1].self[1].count
    ELSE 0

\* cache.set(id, stage)
CacheSet(cache, id, stage) == (id :> stage) @@ cache

\* cache.set(node.id, stage); return stage
stageResult(cache, id, stage) ==
    [stage |-> stage, cache |-> CacheSet(cache, id, stage)]

RECURSIVE resolveStage(_, _)
RECURSIVE resolveStageChildren(_, _, _, _, _)

\* one turn of the loop over node.children: r is the result of resolveStage
\* on children[i], count its parameter count
resolveStageNext(children, i, bestStage, bestCount, r, count) ==
    IF count > bestCount
    THEN resolveStageChildren(children, i + 1, r.cache, Some(r.stage), count)
    ELSE resolveStageChildren(children, i + 1, r.cache, bestStage, bestCount)

\* the loop of resolveStage over node.children: the best stage and the cache
\* after the recursive calls
resolveStageChildren(children, i, cache, bestStage, bestCount) ==
    IF i > Len(children)
    THEN [bestStage |-> bestStage, cache |-> cache]
    ELSE resolveStageNext(children, i, bestStage, bestCount,
                          resolveStage(children[i], cache),
                          resolveParamCount(children[i]))

\* the stage inherited from the heaviest child, or 'aux'
inheritedStage(node, r) ==
    stageResult(r.cache, node.id, IF r.bestStage # None THEN r.bestStage[1] ELSE "aux")

\* resolveStage on a node that is not in the cache
resolveStageMiss(node, cache, explicit) ==
    IF explicit # None THEN stageResult(cache, node.id, explicit[1])
    ELSE inheritedStage(node,
             IF Len(node.children) > 0
             THEN resolveStageChildren(node.children, 1, cache, None, -1)
             ELSE [bestStage |-> None, cache |-> cache])

\* resolveStage returns the stage and leaves its memo in the cache
resolveStage(node, cache) ==
    IF node.id \in DOMAIN cache
    THEN [stage |-> cache[node.id], cache |-> cache]
    ELSE resolveStageMiss(node, cache, resolveExplicitStage(node))

isParallelContainer(node) ==
    LET text == resolveNodeText(node)
    IN \/ LowerTags(node) \cap {"experts", "expert", "router", "moe"} # {}
       \/ IncludesAny(text, {"experts", "expert", "router", "moe", "mixture",
                             "mixture_of_experts"})

\* the order Array.prototype.sort gives with the comparator of
\* resolveSequentialOrder: by order, then by originalIndex
SortByOrder(children) ==
    LET n == Len(children)
        order(i) == resolveOrderIndex(children[i])[1]
        before(i, j) == order(i) < order(j) \/ (order(i) = order(j) /\ i < j)
        rank(i) == 1 + Cardinality({j \in 1..n : before(j, i)})
    IN [k \in 1..n |-> children[CHOOSE i \in 1..n : rank(i) = k]]

\* resolveSequentialOrder without its indexed.length !== children.length
\* return: the children that have an order index, sorted
resolveSequentialOrderOfIndexed(children) ==
    LET indexed == SelectSeq(children, LAMBDA c : resolveOrderIndex(c) # None)
    IN IF Len(indexed) < 2 THEN children ELSE SortByOrder(indexed)

resolveSequentialOrder(children) ==
    LET indexed == {i \in 1..Len(children) : resolveOrderIndex(children[i]) # None}
    IN IF Cardinality(indexed) < 2 THEN children
       ELSE IF Cardinality(indexed) # Len(children) THEN children
       ELSE SortByOrder(children)

VisionWords == {"vision", "visual", "image", "video"}

TextWords == {"text", "language"}

AudioWords == {"audio", "speech", "whisper"}

\* resolveBranchKey on the lower-cased text and tags of the node
branchKeyOf(text, tags) ==
    IF tags \cap VisionWords # {} \/ IncludesAny(text, VisionWords) THEN Some("vision")
    ELSE IF tags \cap TextWords # {} \/ IncludesAny(text, TextWords) THEN Some("text")
    ELSE IF tags \cap AudioWords # {} \/ IncludesAny(text, AudioWords) THEN Some("audio")
    ELSE None

resolveBranchKey(node) == branchKeyOf(resolveNodeText(node), LowerTags(node))

isConnectorNode(node) ==
    LET text == resolveNodeText(node)
    IN \/ LowerTags(node) \cap
            {"connector", "fusion", "adapter", "bridge", "projector", "projection",
             "align", "alignment", "merge", "multimodal", "cross_attn", "cross-attn",
             "qformer", "q_former"} # {}
       \/ IncludesAny(text,
            {"connector", "fusion", "adapter", "bridge", "projector", "projection",
             "align", "alignment", "merge", "multimodal", "multi_modal", "cross_attn",
             "cross-attn", "crossattn", "qformer", "q_former"})

\* the branch keys of the children, null for a child without one
BranchKeys(children) == [i \in 1..Len(children) |-> resolveBranchKey(children[i])]

\* the children that have a branch key
Keyed(key) == {i \in 1..Len(key) : key[i] # None}

\* the verdict of hasParallelBranches from the branch keys of the children
parallelByKeys(children, key) ==
    IF Cardinality(Keyed(key)) < 2 THEN FALSE
    ELSE IF \E i \in 1..Len(children) : key[i] = None /\ isConnectorNode(children[i])
    THEN FALSE
    ELSE Cardinality({key[i] : i \in Keyed(key)}) >= 2

hasParallelBranches(children) == parallelByKeys(children, BranchKeys(children))

resolveFlowMode(parent, children, stageCache) ==
    IF Len(children) < 2 THEN [mode |-> "indexed", order |-> children]
    ELSE IF isParallelContainer(parent) THEN [mode |-> "parallel"]
    ELSE IF hasParallelBranches(children) THEN [mode |-> "parallel"]
    ELSE [mode |-> "indexed", order |-> resolveSequentialOrder(children)]

resolveChildren(node, opts, expand) ==
    IF opts.viewMode = "full" THEN node.children
    ELSE IF node.kind = "collapsed"
         THEN IF expand THEN splitCollapsedNode(node, opts.splitSize) ELSE <<>>
         ELSE node.children

RECURSIVE resolveGraphTree(_, _, _)

\* { ...nextNode, children: children.map(child => resolveGraphTree(...)) }
graphTreeOver(nextNode, depth, opts, children) ==
    [nextNode EXCEPT !.children =
        [i \in 1..Len(children) |->
            resolveGraphTree([children[i] EXCEPT !.depth = depth + 1],
                             depth + 1, opts)]]

\* resolveGraphTree on nextNode = { ...node, depth }
graphTreeOf(nextNode, depth, opts, expand) ==
    graphTreeOver(nextNode, depth, opts,
                  IF expand THEN resolveChildren(nextNode, opts, expand) ELSE <<>>)

resolveGraphTreeAt(nextNode, depth, opts) ==
    graphTreeOf(nextNode, depth, opts, shouldExpandNode(nextNode, opts))

resolveGraphTree(node, depth, opts) ==
    resolveGraphTreeAt([node EXCEPT !.depth = depth], depth, opts)

createStructureEdge(source, target) ==
    [id |-> "structure:" \o source \o "=>" \o target,
     source |-> source,
     target |-> target,
     kind |-> "structure"]

createFlowEdge(source, target) ==
    [id |-> "flow:" \o source \o "=>" \o target,
     source |-> source,
     target |-> target,
     kind |-> "flow"]

\* the GraphNodeData and the Node that visit builds for a tree node
GraphNode(node, stage) ==
    LET size == getNodeSize(node)
        isContainer == Len(node.children) > 0 /\ node.kind # "collapsed"
    IN [id |-> node.id,
        type |-> IF isContainer THEN "group" ELSE "module",
        data |-> [id |-> node.id,
                  label |-> node.name,
                  className |-> node.className,
                  kind |-> node.kind,
                  role |-> stage,
                  depth |-> node.depth,
                  path |-> node.path,
                  index |-> node.index,
                  indexStart |-> node.indexStart,
                  indexEnd |-> node.indexEnd,
                  repeat |-> node.repeat,
                  parameters |-> node.parameters,
                  buffers |-> node.buffers,
                  parameterDetails |-> node.parameterDetails,
                  bufferDetails |-> node.bufferDetails,
                  tags |-> node.tags,
                  synthetic |-> node.synthetic,
                  hasChildren |-> Len(node.children) > 0 \/ node.kind = "collapsed"],
        position |-> [x |-> 0, y |-> 0],
        width |-> size.width,
        height |-> size.height]

\* the flow edges of the sibling chain of an indexed order
ChainEdges(ordered) ==
    [i \in 1..(Len(ordered) - 1) |->
        [ev |-> "flow", edge |-> createFlowEdge(ordered[i].id, ordered[i + 1].id)]]

RECURSIVE visit(_, _)
RECURSIVE visitChildren(_, _, _, _)

\* childEdge without the test of the flow mode: a structure edge always
childEdgeAlwaysStructure(node, child, flowMode) ==
    [ev |-> "structure", edge |-> createStructureEdge(node.id, child.id)]

\* the edge visit pushes for a child: a flow edge from the container under a
\* parallel flow, else a structure edge
childEdge(node, child, flowMode) ==
    IF flowMode.mode = "parallel"
    THEN [ev |-> "flow", edge |-> createFlowEdge(node.id, child.id)]
    ELSE [ev |-> "structure", edge |-> createStructureEdge(node.id, child.id)]

RECURSIVE visitChildrenEdgesFirst(_, _, _, _)
\* visitChildren that pushes the edges to all the children before it visits
\* the first of them
visitChildrenEdgesFirst(node, flowMode, i, acc) ==
    IF i > Len(node.children) THEN acc
    ELSE IF i = 1
         THEN visitChildrenEdgesFirst(node, flowMode, i + 1,
                  visit(node.children[i],
                        [acc EXCEPT !.emitted =
                            @ \o [j \in 1..Len(node.children) |->
                                     childEdge(node, node.children[j], flowMode)]]))
         ELSE visitChildrenEdgesFirst(node, flowMode, i + 1,
                                      visit(node.children[i], acc))

RECURSIVE visitChildrenFirstOnly(_, _, _, _)
\* visitChildren that pushes the edge to every child but visits the first
\* child only
visitChildrenFirstOnly(node, flowMode, i, acc) ==
    IF i > Len(node.children) THEN acc
    ELSE visitChildrenFirstOnly(node, flowMode, i + 1,
             IF i = 1
             THEN visit(node.children[i],
                        [acc EXCEPT !.emitted =
                            Append(@, childEdge(node, node.children[i], flowMode))])
             ELSE [acc EXCEPT !.emitted =
                      Append(@, childEdge(node, node.children[i], flowMode))])

\* the for loop of visit over the children: the edge to the child, then the
\* child
visitChildren(node, flowMode, i, acc) ==
    IF i > Len(node.children) THEN acc
    ELSE visitChildren(node, flowMode, i + 1,
             visit(node.children[i],
                   [acc EXCEPT !.emitted =
                       Append(@, childEdge(node, node.children[i], flowMode))]))

\* visit from the resolveFlowMode call on: the sibling chain of an indexed
\* flow, then the children
visitFlow(node, acc, flowMode) ==
    visitChildren(node, flowMode, 1,
        [acc EXCEPT !.emitted =
            Append(@, [ev |-> "resolveFlowMode", parent |-> node,
                       children |-> node.children, result |-> flowMode])
            \o (IF flowMode.mode = "indexed" THEN ChainEdges(flowMode.order)
                ELSE <<>>)])

\* visit after the node is pushed
visitBody(node, acc) ==
    IF Len(node.children) = 0 THEN acc
    ELSE visitFlow(node, acc, resolveFlowMode(node, node.children, acc.stageCache))

\* visit once the stage of the node is resolved: the push onto nodes
visitNode(node, acc, st) ==
    visitBody(node,
              [emitted |-> Append(acc.emitted,
                                  [ev |-> "node", node |-> GraphNode(node, st.stage)]),
               stageCache |-> st.cache])

\* visit(node): acc.emitted is the sequence of pushes onto nodes,
\* structureEdges and flowEdges (and the resolveFlowMode calls) in the order in
\* which they happen, acc.stageCache the stage cache
visit(node, acc) == visitNode(node, acc, resolveStage(node, acc.stageCache))

\* the elements of a sequence that satisfy a test, in order
RECURSIVE SelectEvents(_, _)
SelectEvents(events, kinds) ==
    IF Len(events) = 0 THEN <<>>
    ELSE IF Head(events).ev \in kinds
         THEN <<Head(events)>> \o SelectEvents(Tail(events), kinds)
         ELSE SelectEvents(Tail(events), kinds)

\* the nodes pushed, in order
EventNodes(events) == [i \in 1..Len(events) |-> events[i].node]

\* the edges pushed, in order
EventEdges(events) == [i \in 1..Len(events) |-> events[i].edge]

\* nodeMap.set(node.id, data) for every node in turn: the last one wins
NodeMapOf(nodes) ==
    [id \in {nodes[i].id : i \in 1..Len(nodes)} |->
        nodes[CHOOSE i \in 1..Len(nodes) :
                 /\ nodes[i].id = id
                 /\ \A j \in (i + 1)..Len(nodes) : nodes[j].id # id].data]

\* the object buildGraph returns
builtGraph(layoutRoot, nodes, structureEdges, flowEdges, emitted) ==
    [nodes |-> nodes,
     edges |-> structureEdges \o flowEdges,
     layoutEdges |-> flowEdges,
     nodeMap |-> NodeMapOf(nodes),
     layoutRoot |-> layoutRoot,
     emitted |-> emitted]

\* buildGraph after visit(layoutRoot)
buildGraphAfter(layoutRoot, emitted) ==
    builtGraph(layoutRoot,
               EventNodes(SelectEvents(emitted, {"node"})),
               EventEdges(SelectEvents(emitted, {"structure"})),
               EventEdges(SelectEvents(emitted, {"flow"})),
               emitted)

\* buildGraph once layoutRoot is resolved
buildGraphOver(layoutRoot) ==
    buildGraphAfter(layoutRoot,
                    visit(layoutRoot, [emitted |-> <<>>, stageCache |-> <<>>]).emitted)

buildGraph(root, opts) == buildGraphOver(resolveGraphTree(root, 0, opts))

-----------------------------------------------------------------------------
(* elk-layout.ts *)

\* Map.prototype.get(id) ?? null
MapGet(map, id) == IF id \in DOMAIN map THEN map[id] ELSE None

RECURSIVE walk(_, _, _)
RECURSIVE walkChildren(_, _, _)

walkChildren(current, i, parentById) ==
    IF i > Len(current.children) THEN parentById
    ELSE walkChildren(current, i + 1,
                      walk(current.children[i], Some(current.id), parentById))

\* walk of buildParentIndex: parentById.set(current.id, parentId), then the
\* children
walk(current, parentId, parentById) ==
    walkChildren(current, 1, (current.id :> parentId) @@ parentById)

buildParentIndex(node) == walk(node, None, <<>>)

RECURSIVE isAncestorLoop(_, _, _)
\* while (current) { ... }: null and the empty string end the loop
isAncestorLoop(current, ancestorId, parentById) ==
    IF current = None \/ current[1] = "" THEN FALSE
    ELSE IF current[1] = ancestorId THEN TRUE
    ELSE isAncestorLoop(MapGet(parentById, current[1]), ancestorId, parentById)

isAncestor(ancestorId, nodeId, parentById) ==
    isAncestorLoop(MapGet(parentById, nodeId), ancestorId, parentById)

DefaultElkSize == [width |-> 220, height |-> 60]

\* sizeById.get(node.id) ?? { width: 220, height: 60 }
SizeOf(node, sizeById) ==
    IF node.id \in DOMAIN sizeById THEN sizeById[node.id] ELSE DefaultElkSize

RECURSIVE buildElkTree(_, _)

\* the ElkNode of a node with children with 'elk.direction': 'DOWN' whatever
\* its flow mode
elkContainerDown(node, sizeById, flowMode) ==
    [id |-> node.id,
     width |-> SizeOf(node, sizeById).width,
     height |-> SizeOf(node, sizeById).height,
     direction |-> Some("DOWN"),
     children |-> IF flowMode.mode = "indexed"
                  THEN [i \in 1..Len(flowMode.order) |->
                           buildElkTree(flowMode.order[i], sizeById)]
                  ELSE [i \in 1..Len(node.children) |->
                           buildElkTree(node.children[i], sizeById)]]

\* the ElkNode of a node with children, from its flow mode
elkContainer(node, sizeById, flowMode) ==
    [id |-> node.id,
     width |-> SizeOf(node, sizeById).width,
     height |-> SizeOf(node, sizeById).height,
     direction |-> IF flowMode.mode = "parallel" THEN Some("RIGHT") ELSE Some("DOWN"),
     children |-> IF flowMode.mode = "indexed"
                  THEN [i \in 1..Len(flowMode.order) |->
                           buildElkTree(flowMode.order[i], sizeById)]
                  ELSE [i \in 1..Len(node.children) |->
                           buildElkTree(node.children[i], sizeById)]]

buildElkTree(node, sizeById) ==
    IF Len(node.children) > 0 /\ node.kind # "collapsed"
    THEN elkContainer(node, sizeById, resolveFlowMode(node, node.children, <<>>))
    ELSE [id |-> node.id,
          width |-> SizeOf(node, sizeById).width,
          height |-> SizeOf(node, sizeById).height,
          direction |-> None,
          children |-> <<>>]

\* the chain of layout edges between the children of a parallel container
parallelChain(node, ordered) ==
    [i \in 1..(Len(ordered) - 1) |->
        [id |-> "layout:parallel:" \o node.id \o ":" \o ordered[i].id
                \o "=>" \o ordered[i + 1].id,
         source |-> ordered[i].id,
         target |-> ordered[i + 1].id]]

RECURSIVE buildParallelLayoutEdges(_)
RECURSIVE parallelEdgesOfChildren(_, _)

parallelEdgesOfChildren(node, i) ==
    IF i > Len(node.children) THEN <<>>
    ELSE buildParallelLayoutEdges(node.children[i]) \o parallelEdgesOfChildren(node, i + 1)

buildParallelLayoutEdges(node) ==
    (IF /\ Len(node.children) > 1
        /\ resolveFlowMode(node, node.children, <<>>).mode = "parallel"
     THEN parallelChain(node, node.children)
     ELSE <<>>)
    \o parallelEdgesOfChildren(node, 1)

RECURSIVE FilterEdgesOneWay(_, _)
\* FilterEdges that drops an edge only when its target is an ancestor of its
\* source
FilterEdgesOneWay(edges, parentById) ==
    IF Len(edges) = 0 THEN <<>>
    ELSE IF ~isAncestor(Head(edges).target, Head(edges).source, parentById)
         THEN <<[id |-> Head(edges).id, source |-> Head(edges).source,
                 target |-> Head(edges).target]>>
              \o FilterEdgesOneWay(Tail(edges), parentById)
         ELSE FilterEdgesOneWay(Tail(edges), parentById)

RECURSIVE FilterEdges(_, _)
\* Array.prototype.filter with the two isAncestor tests of layoutGraph
FilterEdges(edges, parentById) ==
    IF Len(edges) = 0 THEN <<>>
    ELSE IF /\ ~isAncestor(Head(edges).source, Head(edges).target, parentById)
            /\ ~isAncestor(Head(edges).target, Head(edges).source, parentById)
         THEN <<[id |-> Head(edges).id, source |-> Head(edges).source,
                 target |-> Head(edges).target]>>
              \o FilterEdges(Tail(edges), parentById)
         ELSE FilterEdges(Tail(edges), parentById)

\* new Map(nodes.map(node => [node.id, {width, height}])): the last entry of
\* an id wins
SizeById(nodes) ==
    [id \in {nodes[i].id : i \in 1..Len(nodes)} |->
        LET i == CHOOSE k \in 1..Len(nodes) :
                     /\ nodes[k].id = id
                     /\ \A j \in (k + 1)..Len(nodes) : nodes[j].id # id
        IN [width |-> nodes[i].width, height |-> nodes[i].height]]

\* the graph handed to elk.layout: the root ElkNode with direction DOWN and
\* the layout edges followed by the parallel edges
elkGraphOf(rootNode, layoutEdges, parallelEdges) ==
    [id |-> rootNode.id,
     width |-> rootNode.width,
     height |-> rootNode.height,
     direction |-> Some("DOWN"),
     children |-> rootNode.children,
     edges |-> layoutEdges \o parallelEdges]

\* layoutGraph once parentById is built
elkGraphWith(nodes, edges, root, parentById) ==
    elkGraphOf(buildElkTree(root, SizeById(nodes)),
               FilterEdges(edges, parentById),
               FilterEdges(buildParallelLayoutEdges(root), parentById))

\* layoutGraph up to the call of elk.layout: the graph it hands over
elkGraph(nodes, edges, root) == elkGraphWith(nodes, edges, root, buildParentIndex(root))

RECURSIVE elkPlaced(_, _, _)
\* the ElkNode elk.layout answers with for a node of the graph it was given:
\* child i of a container lies (i - 1) steps to the right of the placement's
\* origin, relative to the container
elkPlaced(node, i, place) ==
    [id |-> node.id,
     x |-> place.x + (i - 1) * place.step,
     y |-> place.y,
     width |-> node.width,
     height |-> node.height,
     children |-> [j \in 1..Len(node.children) |->
                      elkPlaced(node.children[j], j, place)],
     edges |-> <<>>]

\* the sections of a routed edge
elkSections(place) ==
    IF place.routed
    THEN <<[startPoint |-> [x |-> 0, y |-> 0],
            bendPoints |-> <<[x |-> 0, y |-> place.step]>>,
            endPoint |-> [x |-> place.step, y |-> place.step]]>>
    ELSE <<>>

\* elk.layout(graph): the graph with coordinates, its edges on the root
elkLayout(g, place) ==
    [elkPlaced(g, 1, place) EXCEPT !.edges =
        [j \in 1..Len(g.edges) |->
            [id |-> g.edges[j].id, sections |-> elkSections(place)]]]

\* the points of one section: start, bend points, end, moved by (x, y)
sectionPoints(section, x, y) ==
    <<[x |-> section.startPoint.x + x, y |-> section.startPoint.y + y]>>
    \o [k \in 1..Len(section.bendPoints) |->
           [x |-> section.bendPoints[k].x + x, y |-> section.bendPoints[k].y + y]]
    \o <<[x |-> section.endPoint.x + x, y |-> section.endPoint.y + y]>>

RECURSIVE pointsOf(_, _, _)
pointsOf(sections, x, y) ==
    IF Len(sections) = 0 THEN <<>>
    ELSE sectionPoints(Head(sections), x, y) \o pointsOf(Tail(sections), x, y)

RECURSIVE collectEdges(_, _, _, _, _)
\* node.edges.forEach of collectLayout: edgeInto.set for the edges that have
\* sections
collectEdges(edges, i, x, y, edgeInto) ==
    IF i > Len(edges) THEN edgeInto
    ELSE collectEdges(edges, i + 1, x, y,
             IF Len(edges[i].sections) > 0
             THEN (edges[i].id :> [id |-> edges[i].id,
                                   points |-> pointsOf(edges[i].sections, x, y)])
                  @@ edgeInto
             ELSE edgeInto)

RECURSIVE collectLayout(_, _, _, _)
RECURSIVE collectChildren(_, _, _, _, _)

collectChildren(node, i, x, y, acc) ==
    IF i > Len(node.children) THEN acc
    ELSE collectChildren(node, i + 1, x, y, collectLayout(node.children[i], x, y, acc))

\* collectLayout once x and y are known: into.set, the edges, the children
collectAt(node, x, y, acc) ==
    collectChildren(node, 1, x, y,
        [into |-> (node.id :> [x |-> x, y |-> y,
                               width |-> node.width, height |-> node.height])
                  @@ acc.into,
         edgeInto |-> collectEdges(node.edges, 1, x, y, acc.edgeInto)])

collectLayout(node, offsetX, offsetY, acc) ==
    collectAt(node, node.x + offsetX, node.y + offsetY, acc)

\* const next = { ...node, position, width, height } and the style of a group
placedNode(node, info) ==
    [id |-> node.id,
     type |-> node.type,
     data |-> node.data,
     position |-> [x |-> info.x, y |-> info.y],
     width |-> info.width,
     height |-> info.height,
     style |-> IF node.type = "group"
               THEN Some([width |-> info.width, height |-> info.height])
               ELSE None]

\* the callback of nodes.map: the k-th input node itself (alias) when the
\* layout holds nothing for its id, else a new node (own)
positionedNode(node, k, layoutInfo) ==
    IF node.id \notin DOMAIN layoutInfo
    THEN [alias |-> Some(k), own |-> None]
    ELSE [alias |-> None, own |-> Some(placedNode(node, layoutInfo[node.id]))]

positionedNodes(nodes, layoutInfo) ==
    [k \in 1..Len(nodes) |-> positionedNode(nodes[k], k, layoutInfo)]

\* node.position of an element of positionedNodes
PositionOf(ref, nodes) ==
    IF ref.alias # None THEN nodes[ref.alias[1]].position ELSE ref.own[1].position

\* Math.min(min, value), from Infinity (None)
MinWith(min, value) == IF min = None THEN Some(value) ELSE Some(Min(min[1], value))

RECURSIVE MinCoord(_, _, _, _, _)
\* positionedNodes.forEach(node => { min = Math.min(min, node.position[axis]) })
MinCoord(positioned, nodes, axis, k, min) ==
    IF k > Len(positioned) THEN min
    ELSE MinCoord(positioned, nodes, axis, k + 1,
                  MinWith(min, PositionOf(positioned[k], nodes)[axis]))

Padding == 40

\* minX < padding ? padding - minX : 0
OffsetOf(min) ==
    IF min # None /\ min[1] < Padding THEN Padding - min[1] ELSE 0

Shift(p, dx, dy) == [x |-> p.x + dx, y |-> p.y + dy]

\* the same pass without its edgeLayoutInfo.forEach: the nodes move, the points
\* of the edges stay
shiftedNodesOnly(positioned, nodes, edgeInfo, dx, dy) ==
    [nodes |->
         [k \in 1..Len(positioned) |->
             IF positioned[k].alias # None THEN positioned[k]
             ELSE [positioned[k] EXCEPT !.own[1].position = Shift(@, dx, dy)]],
     inputNodes |->
         [k \in 1..Len(nodes) |->
             IF positioned[k].alias # None
             THEN [nodes[k] EXCEPT !.position = Shift(@, dx, dy)]
             ELSE nodes[k]],
     edgeInfo |-> edgeInfo]

\* node.position.x += offsetX; node.position.y += offsetY on every element of
\* positionedNodes, an input node among them included, and the same on every
\* point of edgeLayoutInfo
shifted(positioned, nodes, edgeInfo, dx, dy) ==
    IF dx = 0 /\ dy = 0
    THEN [nodes |-> positioned, inputNodes |-> nodes, edgeInfo |-> edgeInfo]
    ELSE [nodes |->
              [k \in 1..Len(positioned) |->
                  IF positioned[k].alias # None THEN positioned[k]
                  ELSE [positioned[k] EXCEPT
                           !.own[1].position = Shift(@, dx, dy)]],
          inputNodes |->
              [k \in 1..Len(nodes) |->
                  IF positioned[k].alias # None
                  THEN [nodes[k] EXCEPT !.position = Shift(@, dx, dy)]
                  ELSE nodes[k]],
          edgeInfo |->
              [id \in DOMAIN edgeInfo |->
                  [edgeInfo[id] EXCEPT
                      !.points = [j \in 1..Len(@) |-> Shift(@[j], dx, dy)]]]]

\* edges.map: the edge with the points of its route, or the edge itself
routedEdges(edges, edgeInfo) ==
    [j \in 1..Len(edges) |->
        [id |-> edges[j].id,
         source |-> edges[j].source,
         target |-> edges[j].target,
         kind |-> edges[j].kind,
         points |-> IF edges[j].id \in DOMAIN edgeInfo
                    THEN Some(edgeInfo[edges[j].id].points)
                    ELSE None]]

\* what layoutGraph returns, and what has become of its input nodes
layoutReturned(edges, norm) ==
    [nodes |-> norm.nodes,
     edges |-> routedEdges(edges, norm.edgeInfo),
     inputNodes |-> norm.inputNodes]

layoutNormalized(nodes, edges, positioned, edgeInfo) ==
    layoutReturned(edges,
        shifted(positioned, nodes, edgeInfo,
                OffsetOf(MinCoord(positioned, nodes, "x", 1, None)),
                OffsetOf(MinCoord(positioned, nodes, "y", 1, None))))

layoutCollected(nodes, edges, collected) ==
    layoutNormalized(nodes, edges, positionedNodes(nodes, collected.into),
                     collected.edgeInto)

\* layoutGraph after the await: from the answer of elk.layout to the return
layoutGraphAfter(nodes, edges, layout) ==
    layoutCollected(nodes, edges,
                    collectLayout(layout, 0, 0, [into |-> <<>>, edgeInto |-> <<>>]))

-----------------------------------------------------------------------------
(* ModelWorkspace: the layout effect *)

\* no layoutGraph call made
NoLayout ==
    /\ placement = None
    /\ calls = <<>>

\* no ModelDataClient is in use
NoClient ==
    /\ indexCache = FALSE
    /\ manifestCache = FALSE
    /\ chunkCache = None
    /\ chunkMaps = <<>>
    /\ chunkCalls = <<>>
    /\ groupCalls = <<>>

\* the state of the component before it is mounted
NoWorkspace ==
    /\ version = "current"
    /\ graphProp = None
    /\ built = 0
    /\ dirty = FALSE
    /\ runs = <<>>
    /\ cleanup = None
    /\ timers = <<>>
    /\ layoutedNodes = None
    /\ layoutedEdges = None
    /\ layouting = FALSE
    /\ applied = <<>>

\* the mounted component: no graph yet, the effect due to run once
InitWorkspace ==
    /\ pc = "workspace"
    /\ raw = None
    /\ collapseOpt = FALSE
    /\ tree = None
    /\ tree2 = None
    /\ splitNode = None
    /\ splitSize = 0
    /\ splitOut = <<>>
    /\ options = None
    /\ graph = None
    /\ elkInput = None
    /\ version \in {"current", "earlier"}
    /\ graphProp = None
    /\ built = 0
    /\ dirty = TRUE
    /\ runs = <<>>
    /\ cleanup = None
    /\ timers = <<>>
    /\ layoutedNodes = None
    /\ layoutedEdges = None
    /\ layouting = FALSE
    /\ applied = <<>>
    /\ NoLayout
    /\ NoClient

\* useMemo yields a new graph, or none: the dependency of the effect changes
ChangeGraph ==
    /\ pc = "workspace"
    /\ \/ /\ built < MaxGraphs
          /\ graphProp' = Some(built + 1)
          /\ built' = built + 1
       \/ /\ graphProp # None
          /\ graphProp' = None
          /\ built' = built
    /\ dirty' = TRUE
    /\ UNCHANGED <<clientVars, treeVars, buildVars, layoutVars, version, runs, cleanup, timers, layoutedNodes,
                   layoutedEdges, layouting, applied>>

\* return () => { active = false }, run by React before the next effect
runsAfterCleanup ==
    IF cleanup = None THEN runs
    ELSE [runs EXCEPT ![cleanup[1]].active = FALSE,
                      ![cleanup[1]].superseded = (@ \/ runs[cleanup[1]].stage = "pending")]

\* the effect on [graph]: the cleanup of the previous run, then the body
RunEffect ==
    /\ pc = "workspace"
    /\ dirty
    /\ dirty' = FALSE
    /\ IF graphProp = None
       THEN /\ runs' = runsAfterCleanup
            /\ cleanup' = None
            /\ IF version = "current"
               THEN /\ timers' = Append(timers, "clear")
                    /\ UNCHANGED <<layoutedNodes, layoutedEdges>>
               ELSE /\ layoutedNodes' = None
                    /\ layoutedEdges' = None
                    /\ UNCHANGED timers
            /\ UNCHANGED layouting
       ELSE /\ runs' = Append(runsAfterCleanup,
                              [graph |-> graphProp[1], active |-> TRUE,
                               stage |-> "pending", outcome |-> "none",
                               superseded |-> FALSE])
            /\ cleanup' = Some(Len(runs) + 1)
            /\ IF version = "current"
               THEN /\ timers' = Append(timers, "layouting")
                    /\ UNCHANGED layouting
               ELSE /\ layouting' = TRUE
                    /\ UNCHANGED timers
            /\ UNCHANGED <<layoutedNodes, layoutedEdges>>
    /\ UNCHANGED <<clientVars, treeVars, buildVars, layoutVars, version, graphProp, built, applied>>

\* the oldest setTimeout callback fires
FireTimer ==
    /\ pc = "workspace"
    /\ timers # <<>>
    /\ timers' = Tail(timers)
    /\ IF Head(timers) = "layouting"
       THEN /\ layouting' = TRUE
            /\ UNCHANGED <<layoutedNodes, layoutedEdges>>
       ELSE /\ layoutedNodes' = None
            /\ layoutedEdges' = None
            /\ UNCHANGED layouting
    /\ UNCHANGED <<clientVars, treeVars, buildVars, layoutVars, version, graphProp, built, dirty, runs, cleanup,
                   applied>>

\* Resolve without the test of `active`
ResolveIgnoringActive(r) ==
    /\ pc = "workspace"
    /\ r \in 1..Len(runs)
    /\ runs[r].stage = "pending"
    /\ runs' = [runs EXCEPT ![r].stage = "then", ![r].outcome = "applied"]
    /\ layoutedNodes' = Some(runs[r].graph)
    /\ layoutedEdges' = Some(runs[r].graph)
    /\ applied' = Append(applied, [run |-> r, latest |-> Len(runs)])
    /\ UNCHANGED <<clientVars, treeVars, buildVars, layoutVars, version, graphProp, built, dirty, cleanup, timers,
                   layouting>>

\* the promise of run r resolves: its .then callback
Resolve(r) ==
    /\ pc = "workspace"
    /\ r \in 1..Len(runs)
    /\ runs[r].stage = "pending"
    /\ IF ~runs[r].active
       THEN /\ runs' = [runs EXCEPT ![r].stage = "then", ![r].outcome = "discarded"]
            /\ UNCHANGED <<layoutedNodes, layoutedEdges, applied>>
       ELSE /\ runs' = [runs EXCEPT ![r].stage = "then", ![r].outcome = "applied"]
            /\ layoutedNodes' = Some(runs[r].graph)
            /\ layoutedEdges' = Some(runs[r].graph)
            /\ applied' = Append(applied, [run |-> r, latest |-> Len(runs)])
    /\ UNCHANGED <<clientVars, treeVars, buildVars, layoutVars, version, graphProp, built, dirty, cleanup, timers,
                   layouting>>

\* Reject with a handler that empties the display
RejectClearingDisplay(r) ==
    /\ pc = "workspace"
    /\ r \in 1..Len(runs)
    /\ runs[r].stage = "pending"
    /\ runs' = [runs EXCEPT ![r].stage = "then", ![r].outcome = "rejected"]
    /\ layoutedNodes' = None
    /\ layoutedEdges' = None
    /\ UNCHANGED <<clientVars, treeVars, buildVars, layoutVars, version, graphProp, built, dirty, cleanup, timers,
                   layouting, applied>>

\* the promise of run r rejects: its .then callback is skipped
Reject(r) ==
    /\ pc = "workspace"
    /\ r \in 1..Len(runs)
    /\ runs[r].stage = "pending"
    /\ runs' = [runs EXCEPT ![r].stage = "then", ![r].outcome = "rejected"]
    /\ UNCHANGED <<clientVars, treeVars, buildVars, layoutVars, version, graphProp, built, dirty, cleanup, timers,
                   layoutedNodes, layoutedEdges, layouting, applied>>

\* the .finally callback of run r
Finally(r) ==
    /\ pc = "workspace"
    /\ r \in 1..Len(runs)
    /\ runs[r].stage = "then"
    /\ runs' = [runs EXCEPT ![r].stage = "done"]
    /\ layouting' = IF runs[r].active THEN FALSE ELSE layouting
    /\ UNCHANGED <<clientVars, treeVars, buildVars, layoutVars, version, graphProp, built, dirty, cleanup, timers,
                   layoutedNodes, layoutedEdges, applied>>

NextWorkspace ==
    \/ ChangeGraph
    \/ RunEffect
    \/ FireTimer
    \/ \E r \in 1..MaxGraphs : Resolve(r)
    \/ \E r \in 1..MaxGraphs : Reject(r)
    \/ \E r \in 1..MaxGraphs : Finally(r)

SpecWorkspace == InitWorkspace /\ [][NextWorkspace]_vars

-----------------------------------------------------------------------------
(* types.ts: the RawNode shape, and the inputs of the tree pipeline *)

Stat(c, b, t) == [count |-> c, size_bytes |-> b, trainable |-> t]

RawLeaf(parentPath, name, class) ==
    [name |-> name,
     path |-> parentPath \o "." \o name,
     class |-> Some(class),
     kind |-> None,
     index |-> None,
     index_start |-> None,
     index_end |-> None,
     repeat |-> None,
     tags |-> <<>>,
     parameters |-> None,
     buffers |-> None,
     parameter_details |-> <<>>,
     buffer_details |-> <<>>,
     children |-> <<>>]

\* the shapes of a child of the root: <<class, index source, statistics,
\* grandchildren>>
TreeShapes ==
    {<<"A", "name", "total", 0>>, <<"A", "name", "full", 0>>,
     <<"B", "name", "total", 0>>, <<"A", "gap", "total", 0>>,
     <<"A", "none", "total", 0>>, <<"A", "range", "rep", 0>>,
     <<"A", "name", "rep", 0>>, <<"A", "name", "total", 1>>,
     <<"A", "name", "total", 2>>, <<"A", "name", "total", 3>>,
     <<"A", "name", "none", 0>>, <<"A", "name", "empty", 0>>,
     <<"A", "range", "total", 0>>, <<"A", "name", "total", 4>>}

\* the RawNode of shape sh at position pos (1-based) under parentPath
RawChild(parentPath, pos, sh) ==
    LET ix == sh[2]
        st == sh[3]
        name == CASE ix = "name" -> ToString(pos - 1)
                  [] ix = "range" -> ToString(2 * (pos - 1)) \o ".." \o ToString(2 * pos - 1)
                  [] OTHER -> "b" \o ToString(pos)
        path == parentPath \o "." \o name
    IN [name |-> name,
        path |-> path,
        class |-> Some(sh[1]),
        kind |-> IF ix = "range" THEN Some("collapsed") ELSE None,
        index |-> IF ix = "gap" THEN Some(2 * pos) ELSE None,
        index_start |-> None,
        index_end |-> None,
        repeat |-> IF st = "rep" THEN Some(2) ELSE None,
        tags |-> IF sh[4] = 0 THEN <<>> ELSE <<"block">>,
        parameters |->
            CASE st = "none" -> None
              [] st = "empty" -> Some([self |-> None, total |-> None])
              [] st = "total" -> Some([self |-> None, total |-> Some(Stat(2, 8, 2))])
              [] st = "full" -> Some([self |-> Some(Stat(1, 4, 0)),
                                      total |-> Some(Stat(2, 8, 1))])
              [] st = "rep" -> Some([self |-> None, total |-> Some(Stat(4, 16, 4))]),
        buffers |->
            CASE st = "full" -> Some([self |-> None, total |-> Some(Stat(1, 2, 0))])
              [] st = "rep" -> Some([self |-> Some(Stat(1, 1, 0)), total |-> None])
              [] OTHER -> None,
        parameter_details |-> IF st = "full" THEN <<"weight">> ELSE <<>>,
        buffer_details |-> IF st = "full" THEN <<"mask">> ELSE <<>>,
        children |->
            CASE sh[4] \in {0, 4} -> <<>>
              [] sh[4] = 1 -> <<RawLeaf(path, "attn", "X")>>
              [] sh[4] = 2 -> <<RawLeaf(path, "mlp", "Y")>>
              [] sh[4] = 3 -> <<RawLeaf(path, "0", "X"), RawLeaf(path, "1", "X")>>]

RawRoot(shapes, Child(_, _, _)) ==
    [name |-> "m",
     path |-> "m",
     class |-> Some("M"),
     kind |-> None,
     index |-> None,
     index_start |-> None,
     index_end |-> None,
     repeat |-> None,
     tags |-> <<>>,
     parameters |-> None,
     buffers |-> None,
     parameter_details |-> <<>>,
     buffer_details |-> <<>>,
     children |-> [i \in 1..Len(shapes) |-> Child("m", i, shapes[i])]]

SeqsUpTo(S, n) == UNION {[1..k -> S] : k \in 0..n}

TreeInputs == {RawRoot(shapes, RawChild) : shapes \in SeqsUpTo(TreeShapes, MaxKids)}

RECURSIVE toRawNode(_)
\* a TreeNode written back in the RawNode shape
toRawNode(node) ==
    [name |-> node.name,
     path |-> node.path,
     class |-> node.className,
     kind |-> Some(node.kind),
     index |-> node.index,
     index_start |-> node.indexStart,
     index_end |-> node.indexEnd,
     repeat |-> node.repeat,
     tags |-> node.tags,
     parameters |-> node.parameters,
     buffers |-> node.buffers,
     parameter_details |-> node.parameterDetails,
     buffer_details |-> node.bufferDetails,
     children |-> [i \in 1..Len(node.children) |-> toRawNode(node.children[i])]]

RECURSIVE Nodes(_)
\* every node of a tree
Nodes(node) ==
    {node} \cup UNION {Nodes(node.children[i]) : i \in 1..Len(node.children)}

-----------------------------------------------------------------------------
(* The tree pipeline: normalizeTree, the round trip, splitCollapsedNode *)

InitTree ==
    /\ pc = "input"
    /\ raw \in TreeInputs
    /\ collapseOpt = FALSE
    /\ tree = None
    /\ tree2 = None
    /\ splitNode = None
    /\ splitSize = 0
    /\ splitOut = <<>>
    /\ options = None
    /\ graph = None
    /\ elkInput = None
    /\ NoWorkspace
    /\ NoLayout
    /\ NoClient

Normalize(collapseRepeats) ==
    /\ pc = "input"
    /\ collapseOpt' = collapseRepeats
    /\ tree' = Some(normalizeTree(raw, collapseRepeats, 0))
    /\ pc' = "normalized"
    /\ UNCHANGED <<raw, tree2, splitNode, splitSize, splitOut, buildVars, wsVars, layoutVars, clientVars>>

Renormalize ==
    /\ pc = "normalized"
    /\ tree2' = Some(normalizeTree(toRawNode(tree[1]), collapseOpt, 0))
    /\ pc' = "renormalized"
    /\ UNCHANGED <<raw, collapseOpt, tree, splitNode, splitSize, splitOut, buildVars, wsVars, layoutVars, clientVars>>

Split ==
    /\ pc = "normalized"
    /\ \E node \in Nodes(tree[1]), segmentSize \in 1..MaxSplit :
          /\ node.kind = "collapsed"
          /\ splitNode' = Some(node)
          /\ splitSize' = segmentSize
          /\ splitOut' = splitCollapsedNode(node, segmentSize)
    /\ pc' = "split"
    /\ UNCHANGED <<raw, collapseOpt, tree, tree2, buildVars, wsVars, layoutVars, clientVars>>

SplitAgain ==
    /\ pc = "split"
    /\ \E i \in 1..Len(splitOut), segmentSize \in 1..MaxSplit :
          /\ splitOut[i].kind = "collapsed"
          /\ splitNode' = Some(splitOut[i])
          /\ splitSize' = segmentSize
          /\ splitOut' = splitCollapsedNode(splitOut[i], segmentSize)
    /\ pc' = "resplit"
    /\ UNCHANGED <<raw, collapseOpt, tree, tree2, buildVars, wsVars, layoutVars, clientVars>>

NextTree ==
    \/ \E c \in BOOLEAN : Normalize(c)
    \/ Renormalize
    \/ Split
    \/ SplitAgain

SpecTree == InitTree /\ [][NextTree]_vars

-----------------------------------------------------------------------------
(* The inputs of the graph build *)

BranchShapes == {"vision", "text", "visualtext", "projector", "experts"}

StackShapes == {"stackA", "stackB"}

\* the RawNode of a build shape at position pos (1-based) under parentPath
BuildChild(parentPath, pos, sh) ==
    LET base == CASE sh = "vision" -> "tower"
                  [] sh \in {"text", "visualtext"} -> "lm"
                  [] sh = "projector" -> "proj"
                  [] sh = "experts" -> "experts"
                  [] sh = "stackA" -> "a"
                  [] sh = "stackB" -> "b"
                  [] sh = "unit" -> "c"
        name == base \o ToString(pos)
        path == parentPath \o "." \o name
        isStack == sh \in {"stackA", "stackB"}
    IN [name |-> name,
        path |-> path,
        class |-> Some(CASE sh = "vision" -> "ViT"
                         [] sh = "text" -> "Bert"
                         [] sh = "visualtext" -> "VisualBert"
                         [] sh = "projector" -> "Linear"
                         [] sh = "experts" -> "MoE"
                         [] sh = "stackA" -> "A"
                         [] sh = "stackB" -> "B"
                         [] sh = "unit" -> "C"),
        kind |-> IF sh = "unit" THEN Some("collapsed") ELSE None,
        index |-> IF isStack THEN Some((pos - 1) % 2) ELSE None,
        index_start |-> None,
        index_end |-> None,
        repeat |-> IF sh = "unit" THEN Some(1) ELSE None,
        tags |-> CASE sh = "vision" -> <<"vision">>
                   [] sh \in {"text", "visualtext"} -> <<"text">>
                   [] sh = "projector" -> <<"projector">>
                   [] OTHER -> <<>>,
        parameters |-> IF isStack
                       THEN Some([self |-> None, total |-> Some(Stat(2, 8, 2))])
                       ELSE None,
        buffers |-> None,
        parameter_details |-> <<>>,
        buffer_details |-> <<>>,
        children |-> IF sh = "experts"
                     THEN <<RawLeaf(path, "gate", "Linear"), RawLeaf(path, "0", "Expert"),
                            RawLeaf(path, "1", "Expert")>>
                     ELSE <<>>]

BuildInputs ==
    {RawRoot(shapes, BuildChild) : shapes \in SeqsUpTo(BranchShapes, MaxBranchKids)}
    \cup {RawRoot(shapes, BuildChild) : shapes \in SeqsUpTo(StackShapes, MaxStackKids)}

\* the expansion maps tried on a tree: empty, one key, or every key true; the
\* keys are the ids of the nodes that can have visible children
ExpandedMaps(root) ==
    LET keys == {n.id : n \in {m \in Nodes(root) :
                                  Len(m.children) > 0 \/ m.kind = "collapsed"}}
    IN {<<>>} \cup {(id :> b) : id \in keys, b \in BOOLEAN}
              \cup {[id \in keys |-> TRUE]}

BuildOptions(root) ==
    [expanded : ExpandedMaps(root),
     autoDepth : 0..MaxAutoDepth,
     viewMode : {"compact", "full"},
     splitSize : 1..MaxBuildSplit]

-----------------------------------------------------------------------------
(* The graph build: normalizeTree, buildGraph, layoutGraph *)

InitBuild ==
    /\ pc = "input"
    /\ raw \in BuildInputs
    /\ collapseOpt = FALSE
    /\ tree = None
    /\ tree2 = None
    /\ splitNode = None
    /\ splitSize = 0
    /\ splitOut = <<>>
    /\ options = None
    /\ graph = None
    /\ elkInput = None
    /\ NoWorkspace
    /\ NoLayout
    /\ NoClient

BuildGraph ==
    /\ pc = "normalized"
    /\ \E opts \in BuildOptions(tree[1]) :
          /\ options' = Some(opts)
          /\ graph' = Some(buildGraph(tree[1], opts))
    /\ pc' = "built"
    /\ UNCHANGED <<raw, collapseOpt, tree, tree2, splitNode, splitSize, splitOut, elkInput, wsVars, layoutVars, clientVars>>

LayoutGraph ==
    /\ pc = "built"
    /\ elkInput' = Some(elkGraph(graph[1].nodes, graph[1].layoutEdges, graph[1].layoutRoot))
    /\ pc' = "layout"
    /\ UNCHANGED <<raw, collapseOpt, tree, tree2, splitNode, splitSize, splitOut, options, graph, wsVars, layoutVars, clientVars>>

NextBuild ==
    \/ \E c \in BOOLEAN : Normalize(c)
    \/ BuildGraph
    \/ LayoutGraph

SpecBuild == InitBuild /\ [][NextBuild]_vars

-----------------------------------------------------------------------------
(* The graph build on modules with named stages *)

StageShapes == {"body", "embed", "plain"}

\* a leaf with parameter statistics
StageLeaf(parentPath, name, class, parameters) ==
    [RawLeaf(parentPath, name, class) EXCEPT !.parameters = Some(parameters)]

\* the RawNode of a stage shape at position pos (1-based) under parentPath:
\* a container whose name says nothing over an embedding, a norm and a pooler,
\* an embedding, or a leaf whose name says nothing
StageChild(parentPath, pos, sh) ==
    LET name == sh \o ToString(pos)
        path == parentPath \o "." \o name
    IN CASE sh = "body" ->
              [RawLeaf(parentPath, name, "Body") EXCEPT
                  !.parameters = Some([self |-> None, total |-> Some(Stat(22, 88, 22))]),
                  !.children =
                      <<StageLeaf(path, "wte", "Embedding",
                                  [self |-> None, total |-> Some(Stat(4, 16, 4))]),
                        StageLeaf(path, "ln", "LayerNorm",
                                  [self |-> Some(Stat(9, 36, 9)), total |-> None]),
                        StageLeaf(path, "pooler", "Pooler",
                                  [self |-> None, total |-> Some(Stat(9, 36, 9))])>>]
         [] sh = "embed" ->
              StageLeaf(parentPath, name, "Embedding",
                        [self |-> None, total |-> Some(Stat(4, 16, 4))])
         [] sh = "plain" ->
              StageLeaf(parentPath, name, "X",
                        [self |-> Some(Stat(4, 16, 4)), total |-> None])

StageInputs ==
    {RawRoot(shapes, StageChild) : shapes \in SeqsUpTo(StageShapes, MaxStageKids)}

InitStage ==
    /\ pc = "input"
    /\ raw \in StageInputs
    /\ collapseOpt = FALSE
    /\ tree = None
    /\ tree2 = None
    /\ splitNode = None
    /\ splitSize = 0
    /\ splitOut = <<>>
    /\ options = None
    /\ graph = None
    /\ elkInput = None
    /\ NoWorkspace
    /\ NoLayout
    /\ NoClient

SpecStage == InitStage /\ [][NextBuild]_vars

-----------------------------------------------------------------------------
(* store.ts and ModelWorkspace: toggleExpanded on a double click *)

\* { ...state.expandedNodes, [nodeId]: !state.expandedNodes[nodeId] }
toggleExpanded(expandedNodes, nodeId) ==
    (nodeId :> ~(nodeId \in DOMAIN expandedNodes /\ expandedNodes[nodeId]))
        @@ expandedNodes

\* the options of buildGraph once the store holds the toggled map
toggledOptions(opts, nodeId) ==
    [opts EXCEPT !.expanded = toggleExpanded(opts.expanded, nodeId)]

\* onNodeDoubleClick on the i-th node of the graph: nothing on a collapsed
\* node, else toggleExpanded(node.id), and the graph useMemo builds the graph
\* again with the new expandedNodes
OnNodeDoubleClick(i) ==
    /\ pc = "built"
    /\ i \in 1..Len(graph[1].nodes)
    /\ graph[1].nodes[i].data.kind # "collapsed"
    /\ \/ graph[1].nodes[i].id \in DOMAIN options[1].expanded
       \/ Cardinality(DOMAIN options[1].expanded) < MaxExpandedKeys
    /\ options' = Some(toggledOptions(options[1], graph[1].nodes[i].id))
    /\ graph' = Some(buildGraph(tree[1], toggledOptions(options[1], graph[1].nodes[i].id)))
    /\ UNCHANGED <<treeVars, elkInput, wsVars, layoutVars, clientVars>>

NextExplorer ==
    \/ \E c \in BOOLEAN : Normalize(c)
    \/ BuildGraph
    \/ \E i \in 1..(1 + 4 * MaxStageKids) : OnNodeDoubleClick(i)

SpecExplorer == InitStage /\ [][NextExplorer]_vars

-----------------------------------------------------------------------------
(* The layout calls: layoutGraph on a built graph, up to its return *)

MaxCalls == 2

\* the children of the root: stack members, and already collapsed nodes
\* that stand for one repetition
LayoutShapes == {"stackA", "unit"}

LayoutInputs ==
    {RawRoot(shapes, BuildChild) : shapes \in SeqsUpTo(LayoutShapes, MaxStackKids)}

\* the answers of elk.layout that are tried: an origin inside the padding with
\* routed edges, and one outside it without
Placements ==
    {[x |-> 12, y |-> 12, step |-> 300, routed |-> TRUE],
     [x |-> 50, y |-> 60, step |-> 300, routed |-> FALSE]}

IdleCall == [stage |-> "idle", elk |-> None, nodes |-> <<>>, edges |-> <<>>]

InitLayout ==
    /\ pc = "input"
    /\ raw \in LayoutInputs
    /\ collapseOpt = FALSE
    /\ tree = None
    /\ tree2 = None
    /\ splitNode = None
    /\ splitSize = 0
    /\ splitOut = <<>>
    /\ options = None
    /\ graph = None
    /\ elkInput = None
    /\ NoWorkspace
    /\ placement \in {Some(place) : place \in Placements}
    /\ calls = [c \in 1..MaxCalls |-> IdleCall]
    /\ NoClient

\* layoutGraph(graph.nodes, graph.layoutEdges, graph.layoutRoot) up to the
\* await of elk.layout
StartLayout(c) ==
    /\ pc = "built"
    /\ c \in 1..Len(calls)
    /\ calls[c].stage = "idle"
    /\ calls' = [calls EXCEPT
                    ![c].stage = "awaiting",
                    ![c].elk = Some(elkGraph(graph[1].nodes, graph[1].layoutEdges,
                                             graph[1].layoutRoot))]
    /\ UNCHANGED <<clientVars, treeVars, buildVars, wsVars, placement>>

\* elk.layout rejects: the call ends there
ElkRejects(c) ==
    /\ pc = "built"
    /\ c \in 1..Len(calls)
    /\ calls[c].stage = "awaiting"
    /\ calls' = [calls EXCEPT ![c].stage = "rejected"]
    /\ UNCHANGED <<clientVars, treeVars, buildVars, wsVars, placement>>

\* the rest of the call once its result is computed: the input nodes are the
\* objects of graph.nodes, so what the call did to them shows in graph
ElkResolvesWith(c, out) ==
    /\ graph' = [graph EXCEPT ![1].nodes = out.inputNodes]
    /\ calls' = [calls EXCEPT ![c].stage = "resolved",
                              ![c].nodes = out.nodes,
                              ![c].edges = out.edges]
    /\ UNCHANGED <<clientVars, treeVars, options, elkInput, wsVars, placement>>

RECURSIVE ElkIds(_)
\* the ids of the nodes of a graph handed to elk.layout
ElkIds(node) ==
    {node.id} \cup UNION {ElkIds(node.children[i]) : i \in 1..Len(node.children)}

\* elk.layout takes a graph only if both ends of every edge are nodes of it
ElkAccepts(g) ==
    \A j \in 1..Len(g.edges) :
        g.edges[j].source \in ElkIds(g) /\ g.edges[j].target \in ElkIds(g)

\* elk.layout resolves: layoutGraph runs from the await to its return
ElkResolves(c) ==
    /\ pc = "built"
    /\ c \in 1..Len(calls)
    /\ calls[c].stage = "awaiting"
    /\ ElkAccepts(calls[c].elk[1])
    /\ ElkResolvesWith(c, layoutGraphAfter(graph[1].nodes, graph[1].layoutEdges,
                                           elkLayout(calls[c].elk[1], placement[1])))

NextLayout ==
    \/ \E c \in BOOLEAN : Normalize(c)
    \/ BuildGraph
    \/ \E c \in 1..MaxCalls : StartLayout(c)
    \/ \E c \in 1..MaxCalls : ElkRejects(c)
    \/ \E c \in 1..MaxCalls : ElkResolves(c)

SpecLayout == InitLayout /\ [][NextLayout]_vars

-----------------------------------------------------------------------------
(* client.ts: ModelDataClient, the chunk cache of one model *)

\* the chunk keys of the manifest, all present
ChunkKeys == {"k1", "k2"}

\* manifest.chunks.groups[group]
GroupKeys == <<"k1", "k2">>

IdleChunk == [stage |-> "idle", key |-> "", hasManifest |-> FALSE, cachedForModel |-> None]

IdleGroup == [stage |-> "idle", chunks |-> <<>>]

\* a fresh client; the identifier of every call is the id of the one model
InitClient ==
    /\ pc = "client"
    /\ raw = None
    /\ collapseOpt = FALSE
    /\ tree = None
    /\ tree2 = None
    /\ splitNode = None
    /\ splitSize = 0
    /\ splitOut = <<>>
    /\ options = None
    /\ graph = None
    /\ elkInput = None
    /\ NoWorkspace
    /\ NoLayout
    /\ indexCache = FALSE
    /\ manifestCache = FALSE
    /\ chunkCache = None
    /\ chunkMaps = <<>>
    /\ chunkCalls = [c \in 1..MaxChunkCalls |-> IdleChunk]
    /\ groupCalls = [g \in 1..MaxGroupCalls |-> IdleGroup]

\* the getChunk calls not yet made, lowest first
IdleChunks == {c \in 1..Len(chunkCalls) : chunkCalls[c].stage = "idle"}

FirstIdle(idle) == CHOOSE c \in idle : \A d \in idle : c <= d

\* getChunk up to `await this.resolveModelPath(identifier)`
startedChunk(key, hasManifest) ==
    [stage |-> "path", key |-> key, hasManifest |-> hasManifest, cachedForModel |-> None]

\* getChunk(identifier, chunkKey) as the hooks call it, without a manifest
GetChunk(c, key) ==
    /\ pc = "client"
    /\ IdleChunks # {}
    /\ c = FirstIdle(IdleChunks)
    /\ chunkCalls' = [chunkCalls EXCEPT ![c] = startedChunk(key, FALSE)]
    /\ UNCHANGED <<treeVars, buildVars, wsVars, layoutVars, indexCache, manifestCache,
                   chunkCache, chunkMaps, groupCalls>>

\* cachedForModel?.get(chunkKey) !== undefined
cachedChunk(cachedForModel, key) ==
    cachedForModel # None /\ key \in chunkMaps[cachedForModel[1]]

\* resolveModelPath has resolved (the index is loaded by then): getChunk reads
\* chunkCache and returns the cached chunk, or goes on to the manifest and the
\* fetch of the chunk
PathResolved(c) ==
    /\ pc = "client"
    /\ c \in 1..Len(chunkCalls)
    /\ chunkCalls[c].stage = "path"
    /\ indexCache' = TRUE
    /\ chunkCalls' = [chunkCalls EXCEPT
          ![c].cachedForModel = chunkCache,
          ![c].stage = IF cachedChunk(chunkCache, chunkCalls[c].key) THEN "returned"
                       ELSE IF chunkCalls[c].hasManifest THEN "fetch"
                       ELSE "manifest"]
    /\ UNCHANGED <<treeVars, buildVars, wsVars, layoutVars, manifestCache, chunkCache,
                   chunkMaps, groupCalls>>

\* `await this.getManifest(identifier)` of getChunk has resolved
ManifestResolved(c) ==
    /\ pc = "client"
    /\ c \in 1..Len(chunkCalls)
    /\ chunkCalls[c].stage = "manifest"
    /\ indexCache' = TRUE
    /\ manifestCache' = TRUE
    /\ chunkCalls' = [chunkCalls EXCEPT ![c].stage = "fetch"]
    /\ UNCHANGED <<treeVars, buildVars, wsVars, layoutVars, chunkCache, chunkMaps, groupCalls>>

\* chunkCache.set(modelPath, new Map([[chunkKey, chunk]]))
cacheInNewMap(key) ==
    /\ chunkMaps' = Append(chunkMaps, {key})
    /\ chunkCache' = Some(Len(chunkMaps) + 1)

\* cachedForModel.set(chunkKey, chunk)
cacheInMap(cachedForModel, key) ==
    /\ chunkMaps' = [chunkMaps EXCEPT ![cachedForModel[1]] = @ \cup {key}]
    /\ UNCHANGED chunkCache

\* the write of getChunk after the fetch, on the Map it read before the fetch
cacheChunk(cachedForModel, key) ==
    IF cachedForModel = None THEN cacheInNewMap(key) ELSE cacheInMap(cachedForModel, key)

\* fetchCompressedJson has resolved: getChunk caches the chunk and returns it
ChunkFetched(c) ==
    /\ pc = "client"
    /\ c \in 1..Len(chunkCalls)
    /\ chunkCalls[c].stage = "fetch"
    /\ cacheChunk(chunkCalls[c].cachedForModel, chunkCalls[c].key)
    /\ chunkCalls' = [chunkCalls EXCEPT ![c].stage = "returned"]
    /\ UNCHANGED <<treeVars, buildVars, wsVars, layoutVars, indexCache, manifestCache,
                   groupCalls>>

\* the fetch a getChunk call waits for is rejected: of the index, of the
\* manifest, of the chunk
ChunkFails(c) ==
    /\ pc = "client"
    /\ c \in 1..Len(chunkCalls)
    /\ \/ chunkCalls[c].stage = "path" /\ ~indexCache
       \/ chunkCalls[c].stage = "manifest" /\ ~(indexCache /\ manifestCache)
       \/ chunkCalls[c].stage = "fetch"
    /\ chunkCalls' = [chunkCalls EXCEPT ![c].stage = "failed"]
    /\ UNCHANGED <<treeVars, buildVars, wsVars, layoutVars, indexCache, manifestCache,
                   chunkCache, chunkMaps, groupCalls>>

\* getGroup(identifier, group) up to `await this.getManifest(identifier)`
GetGroup(g) ==
    /\ pc = "client"
    /\ g \in 1..Len(groupCalls)
    /\ groupCalls[g].stage = "idle"
    /\ groupCalls' = [groupCalls EXCEPT ![g].stage = "manifest"]
    /\ UNCHANGED <<treeVars, buildVars, wsVars, layoutVars, indexCache, manifestCache,
                   chunkCache, chunkMaps, chunkCalls>>

\* the getChunk calls keys.map makes, in the first idle places
RECURSIVE spawnChunks(_, _, _)
spawnChunks(callsNow, keys, places) ==
    IF Len(keys) = 0 THEN [calls |-> callsNow, places |-> places]
    ELSE LET c == FirstIdle({d \in 1..Len(callsNow) : callsNow[d].stage = "idle"})
         IN spawnChunks([callsNow EXCEPT ![c] = startedChunk(Head(keys), TRUE)],
                        Tail(keys), Append(places, c))

\* groupCalls and chunkCalls once the getChunk calls are made
groupSpawned(g, spawned) ==
    /\ chunkCalls' = spawned.calls
    /\ groupCalls' = [groupCalls EXCEPT ![g] = [stage |-> "chunks", chunks |-> spawned.places]]

\* the manifest getGroup waits for has come: one getChunk call per key of the
\* group, each with the manifest, all of them before any of them goes on
GroupManifestResolved(g) ==
    /\ pc = "client"
    /\ g \in 1..Len(groupCalls)
    /\ groupCalls[g].stage = "manifest"
    /\ Cardinality(IdleChunks) >= Len(GroupKeys)
    /\ indexCache' = TRUE
    /\ manifestCache' = TRUE
    /\ groupSpawned(g, spawnChunks(chunkCalls, GroupKeys, <<>>))
    /\ UNCHANGED <<treeVars, buildVars, wsVars, layoutVars, chunkCache, chunkMaps>>

\* Promise.all resolves: every getChunk call of the group has returned
GroupReturns(g) ==
    /\ pc = "client"
    /\ g \in 1..Len(groupCalls)
    /\ groupCalls[g].stage = "chunks"
    /\ \A i \in 1..Len(groupCalls[g].chunks) :
          chunkCalls[groupCalls[g].chunks[i]].stage \in {"returned", "released"}
    /\ groupCalls' = [groupCalls EXCEPT ![g].stage = "returned"]
    /\ UNCHANGED <<treeVars, buildVars, wsVars, layoutVars, indexCache, manifestCache,
                   chunkCache, chunkMaps, chunkCalls>>

\* getGroup rejects: the fetch of its manifest fails, or Promise.all rejects
\* with one of its getChunk calls
GroupFails(g) ==
    /\ pc = "client"
    /\ g \in 1..Len(groupCalls)
    /\ \/ groupCalls[g].stage = "manifest" /\ ~(indexCache /\ manifestCache)
       \/ /\ groupCalls[g].stage = "chunks"
          /\ \E i \in 1..Len(groupCalls[g].chunks) :
                chunkCalls[groupCalls[g].chunks[i]].stage = "failed"
    /\ groupCalls' = [groupCalls EXCEPT ![g].stage = "failed"]
    /\ UNCHANGED <<treeVars, buildVars, wsVars, layoutVars, indexCache, manifestCache,
                   chunkCache, chunkMaps, chunkCalls>>

\* the calls that returned a chunk before the cache of the model was dropped
\* are set apart: their chunks are not expected in the cache any more
Released(callsNow) ==
    [c \in 1..Len(callsNow) |->
        IF callsNow[c].stage = "returned" THEN [callsNow[c] EXCEPT !.stage = "released"]
        ELSE callsNow[c]]

\* releaseModel(identifier): without the index the id has no path and nothing
\* is deleted
ReleaseModel ==
    /\ pc = "client"
    /\ indexCache
    /\ chunkCache' = None
    /\ chunkCalls' = Released(chunkCalls)
    /\ UNCHANGED <<treeVars, buildVars, wsVars, layoutVars, indexCache, manifestCache,
                   chunkMaps, groupCalls>>

ClearCache ==
    /\ pc = "client"
    /\ indexCache' = FALSE
    /\ manifestCache' = FALSE
    /\ chunkCache' = None
    /\ chunkCalls' = Released(chunkCalls)
    /\ UNCHANGED <<treeVars, buildVars, wsVars, layoutVars, chunkMaps, groupCalls>>

NextClient ==
    \/ \E c \in 1..MaxChunkCalls, key \in ChunkKeys : GetChunk(c, key)
    \/ \E c \in 1..MaxChunkCalls : PathResolved(c)
    \/ \E c \in 1..MaxChunkCalls : ManifestResolved(c)
    \/ \E c \in 1..MaxChunkCalls : ChunkFetched(c)
    \/ \E c \in 1..MaxChunkCalls : ChunkFails(c)
    \/ \E g \in 1..MaxGroupCalls : GetGroup(g)
    \/ \E g \in 1..MaxGroupCalls : GroupManifestResolved(g)
    \/ \E g \in 1..MaxGroupCalls : GroupReturns(g)
    \/ \E g \in 1..MaxGroupCalls : GroupFails(g)
    \/ ReleaseModel
    \/ ClearCache

SpecClient == InitClient /\ [][NextClient]_vars

-----------------------------------------------------------------------------
(* Properties of the tree pipeline *)

RECURSIVE RawNodes(_)
RawNodes(node) ==
    {node} \cup UNION {RawNodes(node.children[i]) : i \in 1..Len(node.children)}

RawAt(path) == CHOOSE r \in RawNodes(raw) : r.path = path

\* the siblings the collapser is given for the children of tree node p
CollapserInput(p) ==
    LET r == RawAt(p.path)
    IN [i \in 1..Len(r.children) |-> normalizeTree(r.children[i], TRUE, p.depth + 1)]

\* the groups of the children of tree node p; run j becomes child j of p
RunsOf(p) ==
    LET input == CollapserInput(p)
    IN IF Len(input) < 2 THEN [i \in 1..Len(input) |-> <<input[i]>>]
       ELSE collapseGroups(input)

\* the tree nodes whose children went through the collapser
CollapsedParents ==
    IF pc # "normalized" \/ ~collapseOpt THEN {}
    ELSE {p \in Nodes(tree[1]) : ~p.synthetic}

RECURSIVE SumSeq(_)
SumSeq(seq) == IF Len(seq) = 0 THEN 0 ELSE Head(seq) + SumSeq(Tail(seq))

HasSub(summary, sub) == summary # None /\ summary[1][sub] # None

\* a field of a summary, 0 when the summary or the sub-record is missing
FieldOf(summary, sub, f) == IF HasSub(summary, sub) THEN summary[1][sub][1][f] ELSE 0

StatsAgree(summary, members, key) ==
    /\ (summary = None) <=>
          \A i \in 1..Len(members) :
              ~HasSub(members[i][key], "self") /\ ~HasSub(members[i][key], "total")
    /\ \A sub \in {"self", "total"}, f \in {"count", "size_bytes", "trainable"} :
          FieldOf(summary, sub, f) =
              SumSeq([i \in 1..Len(members) |-> FieldOf(members[i][key], sub, f)])

\* C1: every synthetic node built from a run carries, in each field of
\* parameters.self/.total and buffers.self/.total, the sum of that field over
\* the members of the run, and a summary is null exactly when no member has
\* a self or total record for it.
AggregationInvariant ==
    \A p \in CollapsedParents :
        LET groups == RunsOf(p)
        IN /\ Len(p.children) = Len(groups)
           /\ \A j \in 1..Len(groups) :
                 Len(groups[j]) >= 2 =>
                     /\ p.children[j].synthetic
                     /\ StatsAgree(p.children[j].parameters, groups[j], "parameters")
                     /\ StatsAgree(p.children[j].buffers, groups[j], "buffers")

AggregationWitness ==
    /\ pc = "normalized"
    /\ collapseOpt
    /\ \E p \in CollapsedParents : \E j \in 1..Len(p.children) :
          /\ p.children[j].synthetic
          /\ Len(RunsOf(p)[j]) >= 2
          /\ HasSub(p.children[j].parameters, "self")
          /\ FieldOf(p.children[j].parameters, "total", "count") = 4
          /\ FieldOf(p.children[j].parameters, "total", "trainable") = 3
          /\ HasSub(p.children[j].buffers, "total")

\* the members' index ranges are contiguous and increasing
ContiguousRun(members) ==
    /\ \A i \in 1..Len(members) : resolveIndexRange(members[i]) # None
    /\ \A i \in 2..Len(members) :
          resolveIndexRange(members[i])[1].start =
              resolveIndexRange(members[i - 1])[1].end + 1

\* a member's repeat: its own, else the span of its range, else 1
MemberRepeat(member) ==
    IF member.repeat # None THEN member.repeat[1]
    ELSE IF resolveIndexRange(member) # None
         THEN resolveIndexRange(member)[1].end - resolveIndexRange(member)[1].start + 1
         ELSE 1

\* C2: a run of k >= 2 siblings with contiguous increasing ranges becomes one
\* node with indexStart = first start, indexEnd = last end, name
\* "<indexStart>..<indexEnd>" and repeat = sum of the members' repeats.
RangeContiguity ==
    \A p \in CollapsedParents :
        LET groups == RunsOf(p)
        IN /\ Len(p.children) = Len(groups)
           /\ \A j \in 1..Len(groups) :
                 LET run == groups[j]
                     node == p.children[j]
                     first == resolveIndexRange(run[1])[1].start
                     last == resolveIndexRange(run[Len(run)])[1].end
                 IN (Len(run) >= 2 /\ ContiguousRun(run)) =>
                        /\ node.kind = "collapsed"
                        /\ node.indexStart = Some(first)
                        /\ node.indexEnd = Some(last)
                        /\ node.name = ToString(first) \o ".." \o ToString(last)
                        /\ node.repeat =
                               Some(SumSeq([i \in 1..Len(run) |-> MemberRepeat(run[i])]))

RangeContiguityWitness ==
    \E p \in CollapsedParents : \E j \in 1..Len(p.children) :
        /\ Len(RunsOf(p)[j]) >= 2
        /\ ContiguousRun(RunsOf(p)[j])
        /\ \E i \in 1..Len(RunsOf(p)[j]) : RunsOf(p)[j][i].repeat = None
        /\ p.children[j].name = "0..3"
        /\ p.children[j].repeat = Some(4)

CeilDiv(a, b) == (a + b - 1) \div b

SpanLength(node) == node.indexEnd[1] - node.indexStart[1] + 1

\* the last splitCollapsedNode call was on a node spanning [start..end]
SplitOfSpan ==
    /\ pc \in {"split", "resplit"}
    /\ splitNode[1].indexStart # None
    /\ splitNode[1].indexEnd # None
    /\ splitNode[1].indexStart[1] <= splitNode[1].indexEnd[1]

\* C3: a span no longer than splitSize splits into one leaf per index, in
\* ascending order, each with index = indexStart = indexEnd and repeat 1; a
\* longer span splits into ceil(length / splitSize) collapsed segments that
\* are contiguous, cover exactly the span, have repeat = own length <=
\* splitSize, and only the last may be shorter than splitSize.
SplitInverse ==
    SplitOfSpan =>
        LET start == splitNode[1].indexStart[1]
            end == splitNode[1].indexEnd[1]
            length == end - start + 1
            n == Len(splitOut)
        IN IF length <= splitSize
           THEN /\ n = length
                /\ \A i \in 1..n :
                      /\ splitOut[i].kind = "leaf"
                      /\ splitOut[i].index = Some(start + i - 1)
                      /\ splitOut[i].indexStart = Some(start + i - 1)
                      /\ splitOut[i].indexEnd = Some(start + i - 1)
                      /\ splitOut[i].repeat = Some(1)
           ELSE /\ n = CeilDiv(length, splitSize)
                /\ splitOut[1].indexStart = Some(start)
                /\ splitOut[n].indexEnd = Some(end)
                /\ \A i \in 1..n :
                      /\ splitOut[i].kind = "collapsed"
                      /\ splitOut[i].indexStart # None
                      /\ splitOut[i].indexEnd # None
                      /\ splitOut[i].repeat = Some(SpanLength(splitOut[i]))
                      /\ SpanLength(splitOut[i]) >= 1
                      /\ SpanLength(splitOut[i]) <= splitSize
                      /\ i < n => SpanLength(splitOut[i]) = splitSize
                      /\ i > 1 => splitOut[i].indexStart[1] =
                                      splitOut[i - 1].indexEnd[1] + 1

SplitInverseWitness ==
    /\ SplitOfSpan
    /\ SpanLength(splitNode[1]) > splitSize
    /\ Len(splitOut) >= 2
    /\ SpanLength(splitOut[Len(splitOut)]) < splitSize

RECURSIVE HasSynthetic(_)
HasSynthetic(node) ==
    node.synthetic \/ \E i \in 1..Len(node.children) : HasSynthetic(node.children[i])

\* C4 as stated: normalizing the re-encoded output again, with the same
\* options, returns a tree equal to the first output.
Idempotence == pc = "renormalized" => tree2 = tree

\* C4 as amended: the second pass reproduces the first when collapseRepeats
\* is off, and when it is on and the first pass built no synthetic node.
IdempotenceWithoutSynthetic ==
    (pc = "renormalized" /\ (~collapseOpt \/ ~HasSynthetic(tree[1]))) => tree2 = tree

IdempotenceWitness ==
    /\ pc = "renormalized"
    /\ ~collapseOpt
    /\ Len(tree[1].children) >= 2
    /\ \E i \in 1..Len(tree[1].children) : Len(tree[1].children[i].children) >= 2
    /\ tree2 = tree

\* the last splitCollapsedNode call was on a synthetic node of the tree that
\* was built from a run of two or more members failing the contiguity check
NonContiguousSplit ==
    /\ pc = "split"
    /\ collapseOpt
    /\ \E p \in {q \in Nodes(tree[1]) : ~q.synthetic} :
          \E j \in 1..Len(p.children) :
              /\ p.children[j] = splitNode[1]
              /\ p.children[j].synthetic
              /\ Len(RunsOf(p)[j]) >= 2
              /\ ~ContiguousRun(RunsOf(p)[j])

\* C13 as stated: splitCollapsedNode returns the empty array on a synthetic
\* node built from a run that fails the contiguity check, whatever the
\* splitSize.
UnsplittableRun == NonContiguousSplit => splitOut = <<>>

\* C16 as stated: the parts splitCollapsedNode returns add up to the node
\* that was split: for parameters and for buffers, each field of total summed
\* over the parts equals that field of the node.
SplitAggregation ==
    (pc \in {"split", "resplit"} /\ Len(splitOut) >= 1) =>
        \A key \in {"parameters", "buffers"}, f \in {"count", "size_bytes", "trainable"} :
            SumSeq([i \in 1..Len(splitOut) |-> FieldOf(splitOut[i][key], "total", f)])
                = FieldOf(splitNode[1][key], "total", f)

\* the label the path of a synthetic node is said to end in: "start..end" for
\* a contiguous run, else the name of the first member
StackLabel(run) ==
    IF ContiguousRun(run)
    THEN ToString(resolveIndexRange(run[1])[1].start) \o ".."
         \o ToString(resolveIndexRange(run[Len(run)])[1].end)
    ELSE run[1].name

\* C18 as stated: the path and the id of the synthetic node of a run are
\* "<parentPath>::stack:<label>", the label being "start..end" for a
\* contiguous run and the first member's name otherwise; for a contiguous run
\* the label is the node's name.
StackPathLabel ==
    \A p \in CollapsedParents :
        LET groups == RunsOf(p)
        IN \A j \in 1..Len(groups) :
               (Len(groups[j]) >= 2 /\ j <= Len(p.children)) =>
                   /\ p.children[j].path = p.path \o "::stack:" \o StackLabel(groups[j])
                   /\ p.children[j].id = p.children[j].path
                   /\ ContiguousRun(groups[j]) => StackLabel(groups[j]) = p.children[j].name

\* the collapse-compatibility rule on two siblings: equal shallow signatures,
\* an index or range on both, and equal deep signatures when both have children
CollapseCompatible(a, b) ==
    LET sa == resolveSignature(a)
        sb == resolveSignature(b)
    IN /\ sa.shallow = sb.shallow
       /\ sa.hasIndex /\ sb.hasIndex
       /\ (sa.hasChildren /\ sb.hasChildren) => sa.deep = sb.deep

\* the runs, one after the other, are the siblings in their order
RunsInOrder(groups, input) ==
    /\ \A j \in 1..Len(groups) : Len(groups[j]) >= 1
    /\ SumSeq([j \in 1..Len(groups) |-> Len(groups[j])]) = Len(input)
    /\ \A j \in 1..Len(groups) : \A i \in 1..Len(groups[j]) :
          groups[j][i] =
              input[SumSeq([k \in 1..(j - 1) |-> Len(groups[k])]) + i]

\* C27 as stated: the children of a node are the maximal runs of its raw
\* children under the collapse-compatibility rule, in their order: neighbours
\* inside a run are compatible, the last member of a run and the first of the
\* next are not, a run of one member is that member itself and a longer run is
\* one synthetic node.
MaximalRuns ==
    \A p \in CollapsedParents :
        LET groups == RunsOf(p)
        IN /\ RunsInOrder(groups, CollapserInput(p))
           /\ Len(p.children) = Len(groups)
           /\ \A j \in 1..Len(groups) :
                 /\ Len(groups[j]) = 1 => p.children[j] = groups[j][1]
                 /\ Len(groups[j]) >= 2 => p.children[j].synthetic
                 /\ \A i \in 1..(Len(groups[j]) - 1) :
                       CollapseCompatible(groups[j][i], groups[j][i + 1])
                 /\ j < Len(groups) =>
                       ~CollapseCompatible(groups[j][Len(groups[j])], groups[j + 1][1])

-----------------------------------------------------------------------------
(* Properties of the graph build *)

Built == pc \in {"built", "layout"}

\* the resolveFlowMode calls of the build
FlowCalls ==
    {graph[1].emitted[i] : i \in {k \in 1..Len(graph[1].emitted) :
                                     graph[1].emitted[k].ev = "resolveFlowMode"}}

Tagged(node, tag) == \E i \in 1..Len(node.tags) : node.tags[i] = tag

\* two children, one tagged vision and the other tagged text
VisionAndText(children) ==
    /\ Len(children) = 2
    /\ \E i, j \in 1..2 :
          i # j /\ Tagged(children[i], "vision") /\ Tagged(children[j], "text")

\* the same two children and a third one tagged projector
VisionTextAndProjector(children) ==
    /\ Len(children) = 3
    /\ \E i, j, k \in 1..3 :
          /\ i # j /\ i # k /\ j # k
          /\ Tagged(children[i], "vision")
          /\ Tagged(children[j], "text")
          /\ Tagged(children[k], "projector")

\* C5 as stated: under a container outside the mixture-of-experts vocabulary,
\* resolveFlowMode answers parallel for two children tagged vision and text,
\* and indexed once a third child tagged projector stands beside them.
ParallelScenario ==
    Built =>
        \A c \in FlowCalls :
            ~isParallelContainer(c.parent) =>
                /\ VisionAndText(c.children) => c.result.mode = "parallel"
                /\ VisionTextAndProjector(c.children) => c.result.mode = "indexed"

RECURSIVE PathsOf(_)
\* the paths of a raw tree, parent first
PathsOf(node) ==
    LET RECURSIVE Kids(_)
        Kids(i) == IF i > Len(node.children) THEN <<>>
                   ELSE PathsOf(node.children[i]) \o Kids(i + 1)
    IN <<node.path>> \o Kids(1)

\* the paths of the raw tree are non-empty and pairwise distinct
DistinctPaths ==
    LET paths == PathsOf(raw)
    IN /\ \A i \in 1..Len(paths) : paths[i] # ""
       /\ \A i, j \in 1..Len(paths) : i # j => paths[i] # paths[j]

\* C6 as stated: on a raw tree with non-empty, pairwise distinct paths, no two
\* edges of the built graph have the same id.
EdgeIdsUnique ==
    (Built /\ DistinctPaths) =>
        LET edges == graph[1].edges
        IN \A i, j \in 1..Len(edges) : i # j => edges[i].id # edges[j].id

RECURSIVE Descendants(_)
\* the nodes strictly below a node
Descendants(node) ==
    UNION {{node.children[i]} \cup Descendants(node.children[i]) :
              i \in 1..Len(node.children)}

\* some node with id a has a node with id b strictly below it in layoutRoot
StructuralAncestor(a, b) ==
    \E n \in Nodes(graph[1].layoutRoot) :
        n.id = a /\ \E d \in Descendants(n) : d.id = b

\* C7: no edge handed to the layout algorithm, filtered input edge or added
\* parallel sibling-chain edge, joins a node of layoutRoot to one of its
\* structural ancestors.
AncestorExclusion ==
    pc = "layout" =>
        \A i \in 1..Len(elkInput[1].edges) :
            /\ ~StructuralAncestor(elkInput[1].edges[i].source,
                                   elkInput[1].edges[i].target)
            /\ ~StructuralAncestor(elkInput[1].edges[i].target,
                                   elkInput[1].edges[i].source)

\* a layout call whose input held an edge from a container to its child, and
\* which still hands over edges of both kinds
AncestorExclusionWitness ==
    /\ pc = "layout"
    /\ \E i \in 1..Len(graph[1].layoutEdges) :
          StructuralAncestor(graph[1].layoutEdges[i].source,
                             graph[1].layoutEdges[i].target)
    /\ \E i \in 1..Len(elkInput[1].edges) :
          \E j \in 1..Len(graph[1].layoutEdges) :
              elkInput[1].edges[i].id = graph[1].layoutEdges[j].id
    /\ \E i \in 1..Len(elkInput[1].edges) :
          \A j \in 1..Len(graph[1].layoutEdges) :
              elkInput[1].edges[i].id # graph[1].layoutEdges[j].id

\* the expansion rule: an explicit true, or no entry, a kind other than
\* collapsed and a depth below autoDepth
MayExpand(n) ==
    \/ (n.id \in DOMAIN options[1].expanded /\ options[1].expanded[n.id])
    \/ /\ n.id \notin DOMAIN options[1].expanded
       /\ n.kind # "collapsed"
       /\ n.depth < options[1].autoDepth

\* the node has children to show: the parts of a collapsed node in the
\* compact view, else the children it has in the tree
HasHidden(n) ==
    IF options[1].viewMode = "compact" /\ n.kind = "collapsed"
    THEN Len(splitCollapsedNode([n EXCEPT !.children = <<>>], options[1].splitSize)) > 0
    ELSE \E t \in Nodes(tree[1]) : t.id = n.id /\ Len(t.children) > 0

\* C10: in the resolved tree of a build a node shows children iff it has
\* some and the expansion rule holds for it: an explicit false hides them and
\* a collapsed node without an explicit true stays closed at every depth.
ExpansionRule ==
    Built =>
        \A n \in Nodes(graph[1].layoutRoot) :
            /\ Len(n.children) > 0 <=> (MayExpand(n) /\ HasHidden(n))
            /\ (n.id \in DOMAIN options[1].expanded /\ ~options[1].expanded[n.id])
                   => Len(n.children) = 0
            /\ (n.kind = "collapsed"
                /\ ~(n.id \in DOMAIN options[1].expanded /\ options[1].expanded[n.id]))
                   => Len(n.children) = 0

\* a build in which a collapsed node that has parts to show lies within
\* autoDepth with no entry in the map and stays closed, under a node that the
\* depth rule opened
ExpansionRuleWitness ==
    /\ Built
    /\ \E n \in Nodes(graph[1].layoutRoot) :
          /\ n.kind = "collapsed"
          /\ n.depth < options[1].autoDepth
          /\ n.id \notin DOMAIN options[1].expanded
          /\ HasHidden(n)
          /\ Len(n.children) = 0
    /\ \E n \in Nodes(graph[1].layoutRoot) :
          /\ n.id \notin DOMAIN options[1].expanded
          /\ Len(n.children) > 0

RECURSIVE NodeSeq(_)
\* the nodes of a tree in the order of a depth-first walk, parent first; a
\* node that occurs twice is listed twice
NodeSeq(node) ==
    LET RECURSIVE Kids(_)
        Kids(i) == IF i > Len(node.children) THEN <<>>
                   ELSE NodeSeq(node.children[i]) \o Kids(i + 1)
    IN <<node>> \o Kids(1)

\* the classification of the visible children of a node
ModeOf(n) == resolveFlowMode(n, n.children, <<>>)

\* the edges the emission rule asks of a node: under parallel one flow edge to
\* each child; under indexed one structure edge to each child and one flow
\* edge between each consecutive pair of the classifier's order
OwnEdges(n) ==
    LET flowMode == ModeOf(n)
        ids == [i \in 1..Len(n.children) |-> n.children[i].id]
    IN IF Len(n.children) = 0 THEN <<>>
       ELSE IF flowMode.mode = "parallel"
            THEN [i \in 1..Len(ids) |-> createFlowEdge(n.id, ids[i])]
            ELSE LET order == [i \in 1..Len(flowMode.order) |-> flowMode.order[i].id]
                 IN [i \in 1..Len(ids) |-> createStructureEdge(n.id, ids[i])]
                    \o [i \in 1..(Len(order) - 1) |->
                           createFlowEdge(order[i], order[i + 1])]

RECURSIVE Flatten(_)
Flatten(seqs) == IF Len(seqs) = 0 THEN <<>> ELSE Head(seqs) \o Flatten(Tail(seqs))

\* the edges the emission rule asks of the whole resolved tree
RuleEdges ==
    LET ns == NodeSeq(graph[1].layoutRoot)
    IN Flatten([i \in 1..Len(ns) |-> OwnEdges(ns[i])])

Count(seq, e) == Cardinality({i \in 1..Len(seq) : seq[i] = e})

\* two sequences hold the same elements the same number of times
SameBag(a, b) ==
    /\ Len(a) = Len(b)
    /\ \A i \in 1..Len(a) : Count(a, a[i]) = Count(b, a[i])

OfKind(edges, kind) == SelectSeq(edges, LAMBDA e : e.kind = kind)

\* C11: the edges of a built graph are exactly, edge for edge and count for
\* count, those the emission rule asks of its nodes: for a node with n visible
\* children classified parallel, n flow edges node->child and no structure
\* edge; classified indexed, n structure edges node->child and n-1 flow edges
\* along the classifier's order.
EdgeEmission ==
    Built =>
        LET rule == RuleEdges
            ruleFlow == OfKind(rule, "flow")
        IN /\ SameBag(OfKind(rule, "structure"), OfKind(graph[1].edges, "structure"))
           /\ SameBag(ruleFlow, OfKind(graph[1].edges, "flow"))
           /\ SameBag(ruleFlow, graph[1].layoutEdges)
           /\ Len(rule) = Len(graph[1].edges)

\* a build with a parallel container of several children under an indexed
\* node of several children
EdgeEmissionWitness ==
    /\ Built
    /\ \E n \in Nodes(graph[1].layoutRoot) :
          /\ Len(n.children) >= 2
          /\ ModeOf(n).mode = "indexed"
          /\ \E i \in 1..Len(n.children) :
                /\ Len(n.children[i].children) >= 2
                /\ ModeOf(n.children[i]).mode = "parallel"

\* C12 as stated: on a raw tree with pairwise distinct paths the ids of the
\* node list are pairwise distinct, the list is as long as nodeMap is large,
\* and nodeMap maps the id of each node of the list to that node's payload.
NodeIdsUnique ==
    (Built /\ DistinctPaths) =>
        LET nodes == graph[1].nodes
        IN /\ \A i, j \in 1..Len(nodes) : i # j => nodes[i].id # nodes[j].id
           /\ Len(nodes) = Cardinality(DOMAIN graph[1].nodeMap)
           /\ \A i \in 1..Len(nodes) : graph[1].nodeMap[nodes[i].id] = nodes[i].data

\* the ids of the node list of the built graph
NodeIds == {graph[1].nodes[i].id : i \in 1..Len(graph[1].nodes)}

\* a visible collapsed node whose entry in the expansion map is true
ExpandedCollapsed(n) ==
    /\ n.kind = "collapsed"
    /\ n.id \in DOMAIN options[1].expanded
    /\ options[1].expanded[n.id]

\* C17 as stated: in the compact view the built graph holds, for a collapsed
\* node that is expanded, the nodes splitCollapsedNode returns for it and no
\* node with the id of the collapsed node itself.
ExpandedReplaced ==
    (Built /\ options[1].viewMode = "compact") =>
        \A n \in Nodes(graph[1].layoutRoot) :
            ExpandedCollapsed(n) =>
                /\ \A i \in 1..Len(splitCollapsedNode(n, options[1].splitSize)) :
                      splitCollapsedNode(n, options[1].splitSize)[i].id \in NodeIds
                /\ n.id \notin NodeIds

\* the sibling chain edges a node has: one less than its children under an
\* indexed flow, none under a parallel one
ChainCount(n) ==
    IF Len(n.children) = 0 \/ ModeOf(n).mode = "parallel" THEN 0
    ELSE Len(ModeOf(n).order) - 1

RECURSIVE EmittedBy(_)
\* how many entries the visit of a node adds to the record of the build: the
\* node, and for a node with children the classification, the chain edges,
\* and per child its edge and what the visit of the child adds
EmittedBy(n) ==
    IF Len(n.children) = 0 THEN 1
    ELSE 2 + ChainCount(n)
         + SumSeq([i \in 1..Len(n.children) |-> 1 + EmittedBy(n.children[i])])

\* the node entries of the record follow the depth-first order of layoutRoot
DepthFirst ==
    LET pushed == SelectEvents(graph[1].emitted, {"node"})
        preorder == NodeSeq(graph[1].layoutRoot)
    IN /\ Len(pushed) = Len(preorder)
       /\ \A i \in 1..Len(preorder) : pushed[i].node.id = preorder[i].id

\* C19 as stated: the traversal is depth-first and all the edges of a node,
\* those to its children and its sibling chain, are pushed before any of its
\* children is.
OwnEdgesFirst ==
    Built =>
        /\ DepthFirst
        /\ \A q \in 1..Len(graph[1].emitted) :
              graph[1].emitted[q].ev = "resolveFlowMode" =>
                  \A k \in 1..(ChainCount(graph[1].emitted[q].parent)
                               + Len(graph[1].emitted[q].children)) :
                      /\ q + k <= Len(graph[1].emitted)
                      /\ graph[1].emitted[q + k].ev \in {"flow", "structure"}

\* C19 as amended: the traversal is depth-first; a node's sibling chain edges
\* are pushed right after the node, before any of its children, and the edge
\* to each child is pushed immediately before that child, after the whole
\* subtree of the child before it.
EdgeBeforeChild ==
    Built =>
        /\ DepthFirst
        /\ \A q \in 1..Len(graph[1].emitted) :
              graph[1].emitted[q].ev = "resolveFlowMode" =>
                  LET ev == graph[1].emitted
                      parent == ev[q].parent
                      flowMode == ev[q].result
                      chain == ChainCount(parent)
                      sizes == [i \in 1..Len(parent.children) |->
                                   1 + EmittedBy(parent.children[i])]
                      at == [i \in 1..Len(parent.children) |->
                                q + chain + SumSeq(SubSeq(sizes, 1, i - 1)) + 1]
                  IN /\ q > 1
                     /\ ev[q - 1].ev = "node"
                     /\ ev[q - 1].node.id = parent.id
                     /\ \A k \in 1..chain :
                           ev[q + k] =
                               [ev |-> "flow",
                                edge |-> createFlowEdge(flowMode.order[k].id,
                                                        flowMode.order[k + 1].id)]
                     /\ \A i \in 1..Len(parent.children) :
                           /\ at[i] + 1 <= Len(ev)
                           /\ ev[at[i]] =
                                 IF flowMode.mode = "parallel"
                                 THEN [ev |-> "flow",
                                       edge |-> createFlowEdge(parent.id,
                                                               parent.children[i].id)]
                                 ELSE [ev |-> "structure",
                                       edge |-> createStructureEdge(parent.id,
                                                                    parent.children[i].id)]
                           /\ ev[at[i] + 1].ev = "node"
                           /\ ev[at[i] + 1].node.id = parent.children[i].id

\* a build in which a node has several children and one that is not the last
\* has children of its own, so that the edge to a later child is pushed after
\* a whole subtree
EdgeBeforeChildWitness ==
    /\ Built
    /\ \E n \in Nodes(graph[1].layoutRoot) :
          /\ Len(n.children) >= 2
          /\ \E i \in 1..(Len(n.children) - 1) : Len(n.children[i].children) >= 2

\* C20: both ends of every edge of a built graph, in edges and in layoutEdges
\* alike, are ids of nodes of its node list.
EdgeEndsEmitted ==
    Built =>
        /\ \A i \in 1..Len(graph[1].edges) :
              /\ graph[1].edges[i].source \in NodeIds
              /\ graph[1].edges[i].target \in NodeIds
        /\ \A i \in 1..Len(graph[1].layoutEdges) :
              /\ graph[1].layoutEdges[i].source \in NodeIds
              /\ graph[1].layoutEdges[i].target \in NodeIds

\* a build that hides part of the tree and has structure edges and flow edges
EdgeEndsEmittedWitness ==
    /\ Built
    /\ \E t \in Nodes(tree[1]) : t.id \notin NodeIds
    /\ \E i \in 1..Len(graph[1].edges) : graph[1].edges[i].kind = "structure"
    /\ Len(graph[1].layoutEdges) >= 2

\* the bijections of 1..n
Bijections(n) == {p \in [1..n -> 1..n] : \A i, j \in 1..n : p[i] = p[j] => i = j}

\* order is kids rearranged by p, non-decreasing in the order index, children
\* of equal index keeping their input order
StableSorted(kids, order, p) ==
    /\ \A k \in 1..Len(kids) : order[k] = kids[p[k]]
    /\ \A k, l \in 1..Len(kids) :
          k < l =>
             \/ resolveOrderIndex(order[k])[1] < resolveOrderIndex(order[l])[1]
             \/ /\ resolveOrderIndex(order[k])[1] = resolveOrderIndex(order[l])[1]
                /\ p[k] < p[l]

AllIndexed(kids) == \A i \in 1..Len(kids) : resolveOrderIndex(kids[i]) # None

\* C21: the order of an indexed flow is a permutation of the children; when
\* every child has an order index it is non-decreasing in that index and
\* stable on ties, and when a child has none it is the input order
SequentialOrder ==
    Built =>
        \A call \in FlowCalls :
            call.result.mode = "indexed" =>
                /\ SameBag(call.children, call.result.order)
                /\ AllIndexed(call.children) =>
                      \E p \in Bijections(Len(call.children)) :
                          StableSorted(call.children, call.result.order, p)
                /\ ~AllIndexed(call.children) =>
                      call.result.order = call.children

\* a built graph where an indexed flow moved a child, two children of equal
\* index among them
SequentialOrderWitness ==
    /\ Built
    /\ \E call \in FlowCalls :
          /\ call.result.mode = "indexed"
          /\ AllIndexed(call.children)
          /\ call.result.order # call.children
          /\ \E i, j \in 1..Len(call.children) :
                /\ i # j
                /\ resolveOrderIndex(call.children[i])
                      = resolveOrderIndex(call.children[j])

\* a built graph where an indexed flow has two children with an order index
\* and one without
SequentialOrderMixed ==
    /\ Built
    /\ \E call \in FlowCalls :
          /\ call.result.mode = "indexed"
          /\ ~AllIndexed(call.children)
          /\ \E i, j \in 1..Len(call.children) :
                /\ i # j
                /\ resolveOrderIndex(call.children[i]) # None
                /\ resolveOrderIndex(call.children[j]) # None

\* the branch vocabularies and their keys
Vocabularies ==
    {[words |-> VisionWords, key |-> "vision"],
     [words |-> TextWords, key |-> "text"],
     [words |-> AudioWords, key |-> "audio"]}

\* the node carries a tag of this vocabulary and of no other
TaggedOnly(node, voc) ==
    /\ LowerTags(node) \cap voc.words # {}
    /\ \A other \in Vocabularies \ {voc} : LowerTags(node) \cap other.words = {}

\* C22 as stated: where hasParallelBranches classifies the children, a child
\* that carries a tag of one branch vocabulary gets the key of that vocabulary,
\* whatever words its name, class and path contain.
TagDecidesBranch ==
    Built =>
        \A call \in FlowCalls :
            (Len(call.children) >= 2 /\ ~isParallelContainer(call.parent)) =>
                \A i \in 1..Len(call.children) :
                    \A voc \in Vocabularies :
                        TaggedOnly(call.children[i], voc) =>
                            resolveBranchKey(call.children[i]) = Some(voc.key)

\* the child with the largest parameter count, the first one on ties
Heaviest(children) ==
    CHOOSE i \in 1..Len(children) :
        \A j \in 1..Len(children) :
            \/ resolveParamCount(children[j]) < resolveParamCount(children[i])
            \/ /\ resolveParamCount(children[j]) = resolveParamCount(children[i])
               /\ i <= j

RECURSIVE StageByRule(_)
\* the stage of a tree node: its keyword match, else the stage of its heaviest
\* child, else aux
StageByRule(node) ==
    IF resolveExplicitStage(node) # None THEN resolveExplicitStage(node)[1]
    ELSE IF Len(node.children) = 0 THEN "aux"
    ELSE StageByRule(node.children[Heaviest(node.children)])

\* C23 as stated: the role of a graph node that stands for a tree node without
\* keyword match is the role of the heaviest child of the tree node (the first
\* one on ties), whether or not its children are shown, and aux for a leaf.
InheritedRole ==
    Built =>
        \A i \in 1..Len(graph[1].nodes) :
            \A node \in Nodes(tree[1]) :
                (node.id = graph[1].nodes[i].id /\ resolveExplicitStage(node) = None) =>
                    graph[1].nodes[i].data.role = StageByRule(node)

\* the same for the nodes whose tree children are all shown
InheritedRoleOfShown ==
    Built =>
        \A i \in 1..Len(graph[1].nodes) :
            \A node \in Nodes(tree[1]) :
                /\ node.id = graph[1].nodes[i].id
                /\ resolveExplicitStage(node) = None
                /\ \A sub \in Nodes(node) :
                      Len(sub.children) > 0 => shouldExpandNode(sub, options[1])
                => graph[1].nodes[i].data.role = StageByRule(node)

RECURSIVE ElkDirections(_)
\* the id and the direction of every node of a graph handed to elk.layout
ElkDirections(node) ==
    {[id |-> node.id, direction |-> node.direction]}
    \cup UNION {ElkDirections(node.children[i]) : i \in 1..Len(node.children)}

\* the direction the flow mode of the visible children asks for
DirectionByFlow(node) ==
    IF resolveFlowMode(node, node.children, <<>>).mode = "parallel"
    THEN "RIGHT" ELSE "DOWN"

\* the containers of the resolved tree that show children
ShownContainers ==
    {node \in Nodes(graph[1].layoutRoot) :
        Len(node.children) > 0 /\ node.kind # "collapsed"}

\* C24 as stated: in the graph handed to elk.layout every container that
\* shows children, the root included, has direction RIGHT when its children
\* are a parallel flow and DOWN otherwise.
DirectionFollowsFlow ==
    pc = "layout" =>
        \A node \in ShownContainers :
            [id |-> node.id, direction |-> Some(DirectionByFlow(node))]
                \in ElkDirections(elkInput[1])

\* C24: every container below the root that shows children has direction
\* RIGHT when its children are a parallel flow and DOWN otherwise; the root
\* has direction DOWN whatever the flow of its children.
DirectionFollowsFlowBelowRoot ==
    pc = "layout" =>
        /\ elkInput[1].direction = Some("DOWN")
        /\ \A node \in ShownContainers \ {graph[1].layoutRoot} :
              [id |-> node.id, direction |-> Some(DirectionByFlow(node))]
                  \in ElkDirections(elkInput[1])

\* a graph handed to elk.layout whose root has a parallel flow and shows a
\* container with a parallel flow
DirectionFollowsFlowWitness ==
    /\ pc = "layout"
    /\ DirectionByFlow(graph[1].layoutRoot) = "RIGHT"
    /\ \E node \in ShownContainers \ {graph[1].layoutRoot} :
          /\ DirectionByFlow(node) = "RIGHT"
          /\ [id |-> node.id, direction |-> Some("RIGHT")]
                \in ElkDirections(elkInput[1])

\* C26 as stated: every node of the built graph is a node of the graph handed
\* to elk.layout, and both ends of every edge of that graph are nodes of it,
\* whatever is expanded.
ElkGraphCloses ==
    pc = "layout" =>
        /\ NodeIds \subseteq ElkIds(elkInput[1])
        /\ ElkAccepts(elkInput[1])

\* C30 as stated: for every node shown, toggleExpanded on its id inverts what
\* shouldExpandNode answers for it, leaves every other key of expandedNodes as
\* it was, and a second toggle brings the first answer back; also for a node
\* that has no entry and is expanded by autoDepth alone.
ToggleInverts ==
    Built =>
        \A node \in Nodes(graph[1].layoutRoot) :
            LET once == toggledOptions(options[1], node.id)
                twice == toggledOptions(once, node.id)
            IN /\ shouldExpandNode(node, once) = ~shouldExpandNode(node, options[1])
               /\ DOMAIN once.expanded \ {node.id} = DOMAIN options[1].expanded \ {node.id}
               /\ \A k \in DOMAIN options[1].expanded \ {node.id} :
                     once.expanded[k] = options[1].expanded[k]
               /\ shouldExpandNode(node, twice) = shouldExpandNode(node, options[1])

\* the same for the nodes that have an entry in expandedNodes or are not
\* expanded by autoDepth
ToggleInvertsOutsideDefault ==
    Built =>
        \A node \in Nodes(graph[1].layoutRoot) :
            (\/ node.id \in DOMAIN options[1].expanded
             \/ ~shouldExpandNode(node, options[1])) =>
                LET once == toggledOptions(options[1], node.id)
                    twice == toggledOptions(once, node.id)
                IN /\ shouldExpandNode(node, once) = ~shouldExpandNode(node, options[1])
                   /\ shouldExpandNode(node, twice) = shouldExpandNode(node, options[1])

-----------------------------------------------------------------------------
(* Properties of the layout effect *)

\* C8: a layout call that was in flight when the graph changed and a later
\* call started never has its result written to the layout state, whether it
\* resolves before or after the later call; every write comes from the call
\* started last.
StaleResultRejected ==
    /\ \A r \in 1..Len(runs) :
          (runs[r].superseded /\ r < Len(runs)) =>
              /\ runs[r].outcome # "applied"
              /\ \A i \in 1..Len(applied) : applied[i].run # r
    /\ \A i \in 1..Len(applied) : applied[i].run = applied[i].latest
    /\ layoutedNodes # None =>
          \E i \in 1..Len(applied) : layoutedNodes = Some(runs[applied[i].run].graph)
    /\ layoutedEdges # None =>
          \E i \in 1..Len(applied) : layoutedEdges = Some(runs[applied[i].run].graph)

\* the first call was in flight when the second started, the second resolved
\* and was applied, and the first resolved after that and was discarded
StaleResultRejectedWitness ==
    /\ Len(runs) >= 2
    /\ runs[1].superseded
    /\ runs[1].outcome = "discarded"
    /\ runs[2].outcome = "applied"
    /\ layoutedNodes = Some(runs[2].graph)
    /\ layoutedEdges = Some(runs[2].graph)

\* a step in which the layout call of some run rejects
RejectStep ==
    \E r \in 1..Len(runs) :
        /\ r <= Len(runs')
        /\ runs[r].outcome = "none"
        /\ runs'[r].outcome = "rejected"

\* the displayed graph is the empty one or the graph of a call whose result
\* was applied; no call that rejected is among the applied ones, and no two
\* calls were made for the same graph
DisplayFromApplied ==
    /\ \A r \in 1..Len(runs) :
          runs[r].outcome = "rejected" =>
              /\ \A i \in 1..Len(applied) : applied[i].run # r
              /\ layoutedNodes # Some(runs[r].graph)
              /\ layoutedEdges # Some(runs[r].graph)
    /\ \A r, q \in 1..Len(runs) : r # q => runs[r].graph # runs[q].graph
    /\ layoutedNodes # None =>
          \E i \in 1..Len(applied) :
              /\ runs[applied[i].run].outcome = "applied"
              /\ layoutedNodes = Some(runs[applied[i].run].graph)
              /\ layoutedEdges = layoutedNodes

\* C14: when the layout call of a run rejects, the step leaves the displayed
\* nodes and edges as they were and starts no other call (no retry: the
\* effect is not made due again); at all times the display is the empty graph
\* or the result of a call that resolved, never anything of a rejected call.
RejectKeepsDisplay ==
    /\ []DisplayFromApplied
    /\ [][RejectStep =>
             /\ layoutedNodes' = layoutedNodes
             /\ layoutedEdges' = layoutedEdges
             /\ Len(runs') = Len(runs)
             /\ dirty' = dirty
             /\ timers' = timers]_vars

\* the second call rejected and ran to its end while the result of the first
\* stays displayed, and no further call was made
RejectKeepsDisplayWitness ==
    /\ Len(runs) = 2
    /\ ~dirty
    /\ runs[1].outcome = "applied"
    /\ runs[2].outcome = "rejected"
    /\ runs[2].stage = "done"
    /\ layoutedNodes = Some(runs[1].graph)
    /\ layoutedEdges = Some(runs[1].graph)

\* the input has been taken up and nothing is left to happen: the effect has
\* run for the current graph, no timer is waiting, every layoutGraph call has
\* settled and its callbacks have run
Settled ==
    /\ pc = "workspace"
    /\ ~dirty
    /\ timers = <<>>
    /\ \A r \in 1..Len(runs) : runs[r].stage = "done"

\* C29 as stated: once the graph has stopped changing and every layoutGraph
\* call that was started has settled, the layouting flag is false (and, nothing
\* being left to happen, stays so): it is not left true when no call is in
\* flight.
LayoutingSettles == Settled => ~layouting

\* the same in the earlier version of the effect alone
LayoutingSettlesEarlier == (Settled /\ version = "earlier") => ~layouting

\* the same in the current version of the effect alone
LayoutingSettlesCurrent == (Settled /\ version = "current") => ~layouting


-----------------------------------------------------------------------------
(* Properties of the layout calls *)

\* the nodes a resolved call returned, as its caller sees them now: an input
\* node that was returned is read where it lives, in graph.nodes
OutputNodes(c) ==
    [k \in 1..Len(calls[c].nodes) |->
        IF calls[c].nodes[k].alias # None
        THEN graph[1].nodes[calls[c].nodes[k].alias[1]]
        ELSE calls[c].nodes[k].own[1]]

Resolved(c) == c \in 1..Len(calls) /\ calls[c].stage = "resolved"

\* C15 as stated: no layoutGraph call changes its input (the node objects of
\* the built graph, their positions included, and the edges), two calls on
\* the same built graph return the same nodes and edges in any interleaving,
\* and what a call returned is not changed by the other call.
LayoutInputsUntouched ==
    /\ [][graph # None => graph' = graph]_vars
    /\ [](\A c, d \in 1..MaxCalls :
             (Resolved(c) /\ Resolved(d)) =>
                 /\ OutputNodes(c) = OutputNodes(d)
                 /\ calls[c].edges = calls[d].edges)
    /\ [][\A c \in 1..MaxCalls :
             Resolved(c) => OutputNodes(c)' = OutputNodes(c)]_vars

\* what collectLayout gathers from the answer elk.layout gives call c
CollectedFor(c) ==
    collectLayout(elkLayout(calls[c].elk[1], placement[1]), 0, 0,
                  [into |-> <<>>, edgeInto |-> <<>>])

\* the positions of positionedNodes before the normalization of call c
PositionsBefore(c) ==
    LET positioned == positionedNodes(graph[1].nodes, CollectedFor(c).into)
    IN [k \in 1..Len(positioned) |-> PositionOf(positioned[k], graph[1].nodes)]

\* the points of the j-th edge before the normalization of call c
PointsBefore(c, j) ==
    LET edgeInfo == CollectedFor(c).edgeInto
        id == graph[1].layoutEdges[j].id
    IN IF id \in DOMAIN edgeInfo THEN Some(edgeInfo[id].points) ELSE None

ShiftAll(points, dx, dy) ==
    IF points = None THEN None
    ELSE Some([i \in 1..Len(points[1]) |-> Shift(points[1][i], dx, dy)])

\* call c resolves in this step, on a graph that has nodes
ResolveStep(c) ==
    /\ calls[c].stage = "awaiting"
    /\ calls'[c].stage = "resolved"
    /\ Len(graph[1].nodes) > 0

-----------------------------------------------------------------------------
(* Properties of the data client *)

\* the chunk of this key is in the chunk cache of the model
Cached(key) == cachedChunk(chunkCache, key)

\* C28 as stated: a chunk that a getChunk call has returned, with no
\* releaseModel or clearCache since, is in the cache, so that a later getChunk
\* for it returns it without a fetch; and once getGroup has returned, each
\* chunk of the group is.
ChunkStaysCached ==
    /\ \A c \in 1..Len(chunkCalls) :
          chunkCalls[c].stage = "returned" => Cached(chunkCalls[c].key)
    /\ \A g \in 1..Len(groupCalls) :
          (/\ groupCalls[g].stage = "returned"
           /\ \A i \in 1..Len(groupCalls[g].chunks) :
                 chunkCalls[groupCalls[g].chunks[i]].stage = "returned")
              => \A i \in 1..Len(GroupKeys) : Cached(GroupKeys[i])

====
